---- MODULE Spec2Model ----
(***************************************************************************)
(* Dream Dash: the per-frame simulation of the three playable variants,   *)
(* the App shell around them and the asset-preloading GameCanvas.          *)
(*                                                                         *)
(*   "lives"    the lives-based 2D GameCanvas (components/GameCanvas.jsx)  *)
(*   "basic"    the basic 2D GameCanvas (Space to jump, stars, storms)     *)
(*   "3d"       Game3D (endless runner on @react-three/fiber)              *)
(*   "shell"    App: status bar score and time, theme and mode toggles     *)
(*   "preload"  the GameCanvas that preloads its five images               *)
(*                                                                         *)
(* Numbers.  The sources compute in floating point; the model computes in  *)
(* integers on a fixed grid: 2D lengths and speeds in 1/100 px (0.8 is 80, *)
(* 2.5 is 250), 3D lengths and speeds in 1/10000 world units (0.015 is     *)
(* 150).  Every constant of the sources is a multiple of the grid.         *)
(*                                                                         *)
(* Time.  A setTimeout is a flag that is TRUE while the timeout is pending *)
(* and an action for its callback, which may run at any later moment: the  *)
(* delay is "the callback has not run yet".  Game3D compares timestamps    *)
(* (performance.now() against wind.until); the model keeps until - now,    *)
(* in units of 50 ms, and saturates it at -1 once now > until.             *)
(*                                                                         *)
(* React.  useState values are read by the frame callback through the      *)
(* closure of the last render: `rendered` is that closure.  A setter makes *)
(* the component `dirty`; Commit is the re-render with its effects, and it *)
(* runs before the next animation frame.                                   *)
(*                                                                         *)
(* Math.random().  Every draw is an input of the action, taken from a      *)
(* small set of values of the range the source draws from.                 *)
(***************************************************************************)
EXTENDS Integers, Sequences, FiniteSets, TLC

VARIABLES
  variant,            \* which component is mounted
  player,             \* playerRef.current: [x, y, vy, grounded]
  pressed,            \* pressedRef.current / keyboard.current: held keys
  stars,              \* starsRef.current
  storms,             \* stormsRef.current
  windForce,          \* windForceRef.current / windForce / windRef.current.force
  windTimeout,        \* windTimeoutRef.current is a pending timeout (2D)
  windUntil,          \* windRef.current.until - now, in 50 ms, -1 when passed (3D)
  flashTimeout,       \* flashTimeoutRef.current is a pending timeout (2D)
  stormHitCooldown,   \* stormHitCooldownRef.current is a pending timeout
  canTakeStormDamage, \* canTakeStormDamageRef.current
  score, level, lives, starsCollected, nextLevelAt, gameOver,  \* useState
  target, speed, message,                                      \* useState (3D)
  msgTimeout,         \* the level effect's setTimeout(setMessage(""), 1600) pending
  msgCleanup,         \* the level effect's last run returned a cleanup
  effDeps,            \* dependency values of the level effect at its last run
  rendered,           \* state values captured by the closures of the last render
  dirty,              \* a state setter changed a value: re-render scheduled
  appScore,           \* App's score, raised by onScore
  mounted,            \* the component is mounted
  raf,                \* number of pending animation-frame callbacks
  listening,          \* the key listeners are attached to window
  downRecent,         \* lastDownImpulseAtRef.current is at most 120 ms ago
  clouds,             \* cloudsRef.current / clouds (2D): [x, w, speed]
  timers,             \* number of timeouts the browser holds pending (2D), by kind
  assets,             \* imagesRef.current and the loading of each image (preloading GameCanvas)
  assetsLoaded,       \* useState of the preloading GameCanvas
  drawn,              \* the images the last frame passed to drawImage
  flyer,              \* player.current of the preloading GameCanvas: [x, y]
  drift,              \* starsRef.current of the preloading GameCanvas
  time, theme, mode3D, \* useState of App
  last,               \* the handler that ran last
  obs,                \* what the last update() found: overlaps, collections, gust roll
  frames, events      \* number of frames / of key events and successful rolls

vars == << variant, player, pressed, stars, storms, windForce, windTimeout,
           windUntil, flashTimeout, stormHitCooldown, canTakeStormDamage,
           score, level, lives, starsCollected, nextLevelAt, gameOver,
           target, speed, message, msgTimeout, msgCleanup, effDeps, rendered,
           dirty, appScore, mounted, raf, listening, downRecent, clouds, timers,
           assets, assetsLoaded, drawn, flyer, drift, time, theme, mode3D,
           last, obs, frames, events >>

-----------------------------------------------------------------------------
(* Bounds of the exploration *)

MaxFrames == 3
MaxEvents == 1
MaxTime == 2

-----------------------------------------------------------------------------
(* Arithmetic helpers *)

Min(a, b) == IF a < b THEN a ELSE b
Max(a, b) == IF a > b THEN a ELSE b
Abs(a) == IF a < 0 THEN -a ELSE a

NoObs == [hits |-> 0, stars |-> 0, gust |-> FALSE]

\* App's onScore prop: setScore(s => s + increment), on App's score s
\* a host that counts every call twice
onScoreTwice(s, increment) == s + 2 * increment

onScore(s, increment) == s + increment

\* k scoring events of one tick: onScore(1) is called once for each
RECURSIVE Notify(_, _)
Notify(s, k) == IF k = 0 THEN s ELSE Notify(onScore(s, 1), k - 1)

\* a level-up that steps the level down
NextLevelDown(lv) == lv - 1

\* setLevel((lv) => lv + 1) of both level progression effects
NextLevel(lv) == lv + 1

\* what the variables of App and of the preloading GameCanvas hold while one
\* of the three game components is looked at
UnusedHost == UNCHANGED << assets, assetsLoaded, drawn, flyer, drift, time, theme, mode3D >>

\* no handler but the keydown handler of the lives-based GameCanvas writes
\* lastDownImpulseAtRef
SameDown == UNCHANGED downRecent

\* the clouds move in update() only
SameClouds == UNCHANGED clouds

\* no timeout is set, cleared or fired
SameTimers == UNCHANGED timers

\* a setTimeout that does not clear the one the ref holds
RearmNoClear(n, ref) == n + 1

\* if (ref.current) clearTimeout(ref.current); ref.current = setTimeout(...)
\* on n pending timeouts, ref telling whether the ref holds one
Rearm(n, ref) == (IF ref THEN n - 1 ELSE n) + 1

\* the same k times in a row
RECURSIVE RearmTimes(_, _, _)
RearmTimes(n, ref, k) == IF k = 0 THEN n ELSE RearmTimes(Rearm(n, ref), TRUE, k - 1)

\* if (ref.current) clearTimeout(ref.current), and a timeout that fires
Disarm(n, ref) == IF ref THEN n - 1 ELSE n

\* the timeouts pending when the refs were last set as the flags say
TimersOf(wind, flash, cooldown) ==
  [wind |-> IF wind THEN 1 ELSE 0, flash |-> IF flash THEN 1 ELSE 0,
   cooldown |-> IF cooldown THEN 1 ELSE 0]

HostIdle ==
  /\ assets = << >>
  /\ assetsLoaded = FALSE
  /\ drawn = {}
  /\ flyer = [x |-> 0, y |-> 0]
  /\ drift = << >>
  /\ time = 0
  /\ theme = "light"
  /\ mode3D = FALSE

\* a jump test that does not look at grounded
JumpsInAir(p, up) == up

\* the jump test of the three components: the up input while grounded
Jumps(p, up) == up /\ p.grounded

\* no handler but the frame callback, the loop effect and the unmount cleanup
\* touches these
StillMounted == UNCHANGED << mounted, raf, listening >>

\* a cleanup that leaves the scheduled frame alone
CancelFrameForgotten(n) == n

\* if (rafRef.current) cancelAnimationFrame(rafRef.current), on n pending frames
CancelFrame(n) == IF n > 0 THEN n - 1 ELSE n

-----------------------------------------------------------------------------
(* The lives-based 2D GameCanvas: constants, in 1/100 px *)

W == 600 * 100
GroundLine == 280 * 100
PlayerSize == 30 * 100
Gravity2D == 80
JumpPower == -12 * 100
PlayerSpeed == 250
CeilingY == 10 * 100
MinX2D == 0
MaxX2D == W - PlayerSize
StarR == 5 * 100
StormHalfW == 40 * 100
StormHalfH == 20 * 100
AirBoost == -80
DownImpulse == 320
PushBack == 2 * 100
StarSpeed0 == 150
StarSpeedStep == 20
InitialLives == 3
FirstLevelAt == 5
LevelStep2D == 5

InitialPlayer2D == [x |-> 100 * 100, y |-> 250 * 100, vy |-> 0, grounded |-> TRUE]

\* rectCircleColliding: the squares are taken only of distances within r
rectCircleColliding(px, py, pw, ph, cx, cy, r) ==
  LET closestX == Max(px, Min(cx, px + pw))
      closestY == Max(py, Min(cy, py + ph))
      dx == cx - closestX
      dy == cy - closestY
  IN  /\ Abs(dx) <= r
      /\ Abs(dy) <= r
      /\ dx * dx + dy * dy <= r * r

rectRectOverlap(ax, ay, aw, ah, bx, by, bw, bh) ==
  /\ ax < bx + bw
  /\ ax + aw > bx
  /\ ay < by + bh
  /\ ay + ah > by

StarHits2D(p, s) ==
  rectCircleColliding(p.x, p.y, PlayerSize, PlayerSize, s.x, s.y, StarR)

StormHits2D(p, st) ==
  rectRectOverlap(p.x, p.y, PlayerSize, PlayerSize,
                  st.x - StormHalfW, st.y - StormHalfH, 2 * StormHalfW, 2 * StormHalfH)

ClampX2D(x) == IF x < MinX2D THEN MinX2D ELSE IF x > MaxX2D THEN MaxX2D ELSE x

-----------------------------------------------------------------------------
(* Math.random() draws of one update() of the lives-based variant *)

WindRolls == {-2, 1}             \* (Math.random() - 0.5), in quarters
SpawnStormY == (80 + 100) * 100  \* 80 + Math.random() * 120
SpawnStormJitter == 30           \* Math.random() * 0.8
StarRespawnDx == 100 * 100       \* Math.random() * 200
StarRespawnY == (80 + 100) * 100 \* 80 + Math.random() * 200
StormRespawnDx == 100 * 100      \* Math.random() * 200
NewStarDx == 60 * 100            \* Math.random() * 120

Draws2D ==
  {[spawn |-> s, gust |-> FALSE, q |-> 0] : s \in BOOLEAN}
    \cup {[spawn |-> s, gust |-> TRUE, q |-> q] : s \in BOOLEAN, q \in WindRolls}

\* the rolls of r that succeed count against the exploration's budget
Cost(r, nStorms, cap) ==
  (IF r.spawn /\ nStorms < cap THEN 1 ELSE 0) + (IF r.gust THEN 1 ELSE 0)

-----------------------------------------------------------------------------
(* lives-based GameCanvas: update() and the functions it calls *)

MaxStorms(lv) == Min(2 + (lv \div 2), 5)

\* a spawn that does not look at the number of storms
SpawnStormUncapped(sts, lv, r) ==
  IF r.spawn
    THEN Append(sts, [x |-> W, y |-> SpawnStormY,
                      speed |-> 160 + SpawnStormJitter + lv * 10])
    ELSE sts

\* computerControl(W), reading level from the closure of the render
SpawnStorm(sts, lv, r) ==
  IF r.spawn /\ Len(sts) < MaxStorms(lv)
    THEN Append(sts, [x |-> W, y |-> SpawnStormY,
                      speed |-> 160 + SpawnStormJitter + lv * 10])
    ELSE sts

GustForce(lv, q) == q * (50 + 5 * lv)     \* (q / 4) * (2 + level * 0.2)

CloudCount == 8
CloudW == 5000                   \* w: 50
CloudSpeed == 50                 \* speed: 0.5
CloudRespawnDx == 10000          \* Math.random() * 200, here 100

\* initEntities / initial setup: the clouds
FreshClouds ==
  [i \in 1..CloudCount |-> [x |-> (i - 1) * 100 * 100, w |-> CloudW, speed |-> CloudSpeed]]

\* the clouds some hundred ticks later: the first is about to leave at the
\* left edge, the second reaches the edge exactly before it leaves
CloudsInPlay ==
  [i \in 1..CloudCount |->
     IF i = 1 THEN [FreshClouds[1] EXCEPT !.x = 25 - CloudW]
     ELSE IF i = 2 THEN [FreshClouds[2] EXCEPT !.x = 2 * CloudSpeed - CloudW]
     ELSE FreshClouds[i]]

\* a cloud that is never put back
ScrollCloudAway(c) == [c EXCEPT !.x = c.x - c.speed]

\* drawClouds: scroll left, recycle past the left edge
ScrollCloud(c) ==
  LET nx == c.x - c.speed
  IN  IF nx + c.w < 0
        THEN [c EXCEPT !.x = W + CloudRespawnDx]
        ELSE [c EXCEPT !.x = nx]

\* drawStars / drawStorms: scroll left, recycle past the left edge
ScrollStar(s) ==
  LET nx == s.x - s.speed
  IN  IF nx + StarR < 0
        THEN [s EXCEPT !.x = W + StarRespawnDx, !.y = StarRespawnY]
        ELSE [s EXCEPT !.x = nx]

ScrollStorm(st) ==
  LET nx == st.x - st.speed
  IN  IF nx + StormHalfW < 0
        THEN [st EXCEPT !.x = W + StormRespawnDx]
        ELSE [st EXCEPT !.x = nx]

\* the same physics without the ground test
MoveLivesNoGround(p, keys, wind) ==
  LET xa == p.x - (IF "ArrowLeft" \in keys THEN PlayerSpeed ELSE 0)
      xb == xa + (IF "ArrowRight" \in keys THEN PlayerSpeed ELSE 0)
      xc == ClampX2D(xb)
      vy1 == p.vy + Gravity2D
      y1 == p.y + vy1
      xd == ClampX2D(xc + wind)
      hitCeil == y1 < CeilingY
  IN  [x |-> xd,
       y |-> IF hitCeil THEN CeilingY ELSE y1,
       vy |-> IF hitCeil /\ vy1 < 0 THEN 0 ELSE vy1,
       grounded |-> FALSE]

\* the physics without the ceiling test
MoveLivesNoCeiling(p, keys, wind) ==
  LET xa == p.x - (IF "ArrowLeft" \in keys THEN PlayerSpeed ELSE 0)
      xb == xa + (IF "ArrowRight" \in keys THEN PlayerSpeed ELSE 0)
      xc == ClampX2D(xb)
      vy1 == p.vy + Gravity2D
      y1 == p.y + vy1
      xd == ClampX2D(xc + wind)
      onGround == y1 + PlayerSize > GroundLine
  IN  [x |-> xd,
       y |-> IF onGround THEN GroundLine - PlayerSize ELSE y1,
       vy |-> IF onGround THEN 0 ELSE vy1,
       grounded |-> onGround]

\* Player movement and physics of update(): keys, clamp, gravity, wind, clamp,
\* ceiling, ground
MoveLives(p, keys, wind) ==
  LET xa == p.x - (IF "ArrowLeft" \in keys THEN PlayerSpeed ELSE 0)
      xb == xa + (IF "ArrowRight" \in keys THEN PlayerSpeed ELSE 0)
      xc == ClampX2D(xb)
      vy1 == p.vy + Gravity2D
      y1 == p.y + vy1
      xd == ClampX2D(xc + wind)
      hitCeil == y1 < CeilingY
      y2 == IF hitCeil THEN CeilingY ELSE y1
      vy2 == IF hitCeil /\ vy1 < 0 THEN 0 ELSE vy1
      onGround == y2 + PlayerSize > GroundLine
  IN  [x |-> xd,
       y |-> IF onGround THEN GroundLine - PlayerSize ELSE y2,
       vy |-> IF onGround THEN 0 ELSE vy2,
       grounded |-> onGround]

\* a star loop that stops at the first hit
CollectedStarsFirstOnly(p, ss) ==
  LET hit == {i \in 1..Len(ss) : StarHits2D(p, ss[i])}
  IN  {i \in hit : \A j \in hit : i <= j}

\* handleStarCollisions: every star is tested; a hit star is respawned
CollectedStars(p, ss) == {i \in 1..Len(ss) : StarHits2D(p, ss[i])}

RespawnStar(s) ==
  [s EXCEPT !.x = W + 40 * 100 + StarRespawnDx, !.y = StarRespawnY]

RespawnCollected(p, ss) ==
  [i \in 1..Len(ss) |-> IF StarHits2D(p, ss[i]) THEN RespawnStar(ss[i]) ELSE ss[i]]

\* handleStormCollisions: the loop body for one storm, on the accumulated
\* [x, vy, can, timer, lives, over, hits]
\* a damage test that ignores the invulnerability flag
TakesDamageAlways(can) == TRUE

TakesDamage(can) == can
LivesAfterHit(prev) == prev - 1

\* a last life whose loss does not end the game
OverAfterHitNever(next) == FALSE

OverAfterHit(next) == next <= 0

\* a loop body that pushes the player only when a life is lost
StormStepPushOnDamage(a, y, st) ==
  IF StormHits2D([x |-> a.x, y |-> y], st) /\ TakesDamage(a.can)
    THEN LET next == LivesAfterHit(a.lives)
         IN  [x |-> a.x - PushBack,
              vy |-> a.vy - PushBack,
              can |-> FALSE,
              timer |-> TRUE,
              lives |-> next,
              over |-> IF OverAfterHit(next) THEN TRUE ELSE a.over,
              hits |-> a.hits + 1]
    ELSE a

StormStep(a, y, st) ==
  IF StormHits2D([x |-> a.x, y |-> y], st)
    THEN LET dmg == TakesDamage(a.can)
             next == LivesAfterHit(a.lives)
         IN  [x |-> a.x - PushBack,
              vy |-> a.vy - PushBack,
              can |-> IF dmg THEN FALSE ELSE a.can,
              timer |-> IF dmg THEN TRUE ELSE a.timer,
              lives |-> IF dmg THEN next ELSE a.lives,
              over |-> IF dmg /\ OverAfterHit(next) THEN TRUE ELSE a.over,
              hits |-> a.hits + 1]
    ELSE a

RECURSIVE StormLoop(_, _, _, _)
StormLoop(a, y, sts, i) ==
  IF i > Len(sts) THEN a ELSE StormLoop(StormStep(a, y, sts[i]), y, sts, i + 1)

\* update(): ss are the stars it finds, cOver and cLevel the gameOver and level
\* of the closure it runs in, r its random draws
UpdateLives(ss, cOver, cLevel, r) ==
  LET sts0 == SpawnStorm(storms, cLevel, r)
      wind == IF r.gust THEN GustForce(cLevel, r.q) ELSE windForce
      ss1 == [i \in 1..Len(ss) |-> ScrollStar(ss[i])]
      sts1 == [i \in 1..Len(sts0) |-> ScrollStorm(sts0[i])]
      p1 == MoveLives(player, pressed, wind)
      got == IF cOver THEN {} ELSE CollectedStars(p1, ss1)
      k == Cardinality(got)
      ss2 == IF cOver THEN ss1 ELSE RespawnCollected(p1, ss1)
      a0 == [x |-> p1.x, vy |-> p1.vy, can |-> canTakeStormDamage,
             timer |-> stormHitCooldown, lives |-> lives, over |-> gameOver,
             hits |-> 0]
      a == IF cOver THEN a0 ELSE StormLoop(a0, p1.y, sts1, 1)
  IN  [player |-> [p1 EXCEPT !.x = a.x, !.vy = a.vy],
       stars |-> ss2, storms |-> sts1,
       windForce |-> wind, windTimeout |-> (windTimeout \/ r.gust),
       flashTimeout |-> (flashTimeout \/ k > 0),
       score |-> score + k, starsCollected |-> starsCollected + k,
       appScore |-> Notify(appScore, k),
       lives |-> a.lives, gameOver |-> a.over,
       canTake |-> a.can, cooldown |-> a.timer,
       timers |-> [wind |-> IF r.gust THEN Rearm(timers.wind, windTimeout)
                                      ELSE timers.wind,
                   flash |-> RearmTimes(timers.flash, flashTimeout, k),
                   cooldown |-> timers.cooldown + (lives - a.lives)],
       obs |-> [hits |-> a.hits, stars |-> k, gust |-> r.gust],
       cost |-> Cost(r, Len(storms), MaxStorms(cLevel))]

\* initEntities: ten stars
StarCount2D == 10
FreshStarY == (100 + 50) * 100   \* 100 + Math.random() * 100
FreshStars2D ==
  [i \in 1..StarCount2D |->
     [x |-> ((i - 1) * 80 + 100) * 100, y |-> FreshStarY, speed |-> StarSpeed0]]

Arrows == {"ArrowUp", "ArrowDown", "ArrowLeft", "ArrowRight"}

Closure == [gameOver |-> gameOver, level |-> level, speed |-> speed]

\* what the 3D component's variables hold while a 2D component is mounted
Unused3D == UNCHANGED << windUntil, target, speed, message, msgTimeout, msgCleanup >>

\* update() has run with result u
ApplyLives(u) ==
  /\ player' = u.player
  /\ stars' = u.stars
  /\ storms' = u.storms
  /\ windForce' = u.windForce
  /\ windTimeout' = u.windTimeout
  /\ flashTimeout' = u.flashTimeout
  /\ timers' = u.timers
  /\ score' = u.score
  /\ starsCollected' = u.starsCollected
  /\ appScore' = u.appScore
  /\ lives' = u.lives
  /\ gameOver' = u.gameOver
  /\ canTakeStormDamage' = u.canTake
  /\ stormHitCooldown' = u.cooldown
  /\ obs' = u.obs
  /\ events' = events + u.cost

StateChanged(u) == u.score # score \/ u.lives # lives \/ u.gameOver # gameOver

\* requestAnimationFrame(update): one frame of the running loop
FrameLives ==
  /\ variant = "lives"
  /\ raf > 0
  /\ ~dirty
  /\ frames < MaxFrames
  /\ \E r \in Draws2D :
       LET u == UpdateLives(stars, rendered.gameOver, rendered.level, r)
       IN  /\ events + u.cost <= MaxEvents
           /\ ApplyLives(u)
           /\ dirty' = StateChanged(u)
  /\ frames' = frames + 1
  /\ last' = "frame"
  /\ UNCHANGED << variant, pressed, level, nextLevelAt, effDeps, rendered >>
  /\ Unused3D
  /\ raf' = raf - 1 + 1
  /\ UNCHANGED << mounted, listening >>
  /\ clouds' = [i \in 1..Len(clouds) |-> ScrollCloud(clouds[i])]
  /\ UnusedHost
  /\ SameDown

\* The level progression effect of the lives-based variant
LevelUpLives == starsCollected >= nextLevelAt /\ ~gameOver

\* a level-up that leaves the threshold where it was
NextLevelAtKept(prev) == prev

NextLevelAt(prev) == prev + LevelStep2D

\* a level-up that only speeds the stars up
StarsAfterLevelUpNoPush(ss, lv) ==
  [i \in 1..Len(ss) |-> [ss[i] EXCEPT !.speed = @ + StarSpeedStep]]

\* the level effect on the stars: each one faster, and one more star
StarsAfterLevelUp(ss, lv) ==
  Append([i \in 1..Len(ss) |-> [ss[i] EXCEPT !.speed = @ + StarSpeedStep]],
         [x |-> W + NewStarDx, y |-> StarRespawnY, speed |-> StarSpeed0 + lv * 10])

\* Re-render after a state change, with its effects in order: the level
\* progression effect, then the main loop effect, whose cleanup cancels the
\* pending frame and whose body calls update() at once, which requests a frame
CommitLives ==
  /\ variant = "lives"
  /\ mounted
  /\ dirty
  /\ LET runs == << starsCollected, nextLevelAt, gameOver, level >> # effDeps
         up == runs /\ LevelUpLives
         ss == IF up THEN StarsAfterLevelUp(stars, level) ELSE stars
     IN  /\ level' = IF up THEN NextLevel(level) ELSE level
         /\ nextLevelAt' = IF up THEN NextLevelAt(nextLevelAt) ELSE nextLevelAt
         /\ \E r \in Draws2D :
              LET u == UpdateLives(ss, gameOver, level, r)
              IN  /\ events + u.cost <= MaxEvents
                  /\ ApplyLives(u)
                  /\ dirty' = (up \/ StateChanged(u))
  /\ rendered' = Closure
  /\ effDeps' = << starsCollected, nextLevelAt, gameOver, level >>
  /\ last' = "commit"
  /\ UNCHANGED << variant, pressed, frames >>
  /\ Unused3D
  /\ raf' = CancelFrame(raf) + 1
  /\ UNCHANGED << mounted, listening >>
  /\ clouds' = [i \in 1..Len(clouds) |-> ScrollCloud(clouds[i])]
  /\ UnusedHost
  /\ SameDown

\* a Down handler without the rate limit
DownAllowedAlways(recent) == TRUE

\* if (now - lastDownImpulseAtRef.current > 120)
DownAllowed(recent) == ~recent

\* onKeyDown for an arrow key
KeyDownLives ==
  /\ variant = "lives"
  /\ listening
  /\ events < MaxEvents
  /\ \E k \in Arrows :
       /\ pressed' = pressed \cup {k}
       /\ player' =
            IF k = "ArrowUp"
              THEN IF Jumps(player, TRUE)
                     THEN [player EXCEPT !.vy = JumpPower, !.grounded = FALSE]
                     ELSE [player EXCEPT !.vy = @ + AirBoost]
            ELSE IF k = "ArrowDown" /\ DownAllowed(downRecent)
              THEN [player EXCEPT !.vy = @ + DownImpulse]
            ELSE player
       /\ downRecent' = IF k = "ArrowDown" /\ DownAllowed(downRecent)
                          THEN TRUE ELSE downRecent
  /\ events' = events + 1
  /\ last' = "keydown"
  /\ obs' = NoObs
  /\ UNCHANGED << variant, stars, storms, windForce, windTimeout, flashTimeout,
                  stormHitCooldown, canTakeStormDamage, score, level, lives,
                  starsCollected, nextLevelAt, gameOver, effDeps, rendered, dirty,
                  appScore, frames >>
  /\ Unused3D
  /\ StillMounted
  /\ UnusedHost
  /\ SameClouds
  /\ SameTimers

\* more than 120 ms have passed since the last Down impulse
DownAges ==
  /\ variant = "lives"
  /\ mounted
  /\ downRecent
  /\ downRecent' = FALSE
  /\ last' = "downAges"
  /\ UNCHANGED << variant, player, pressed, stars, storms, windForce, windTimeout,
                  flashTimeout, stormHitCooldown, canTakeStormDamage, score, level,
                  lives, starsCollected, nextLevelAt, gameOver, effDeps, rendered,
                  dirty, appScore, obs, frames, events >>
  /\ Unused3D
  /\ StillMounted
  /\ UnusedHost
  /\ SameClouds
  /\ SameTimers

KeyUp ==
  /\ events < MaxEvents
  /\ listening
  /\ \E k \in pressed : pressed' = pressed \ {k}
  /\ events' = events + 1
  /\ last' = "keyup"
  /\ obs' = NoObs
  /\ UNCHANGED << variant, player, stars, storms, windForce, windTimeout, flashTimeout,
                  stormHitCooldown, canTakeStormDamage, score, level, lives,
                  starsCollected, nextLevelAt, gameOver, effDeps, rendered, dirty,
                  appScore, frames >>
  /\ Unused3D
  /\ StillMounted
  /\ UnusedHost
  /\ SameClouds
  /\ SameTimers
  /\ SameDown

\* a reset that leaves out setLives(3)
SessionAfterRestartKeepsLives ==
  [score |-> 0, level |-> 1, lives |-> lives, starsCollected |-> 0,
   nextLevelAt |-> FirstLevelAt, gameOver |-> FALSE]

\* restartGame: Reset game state
SessionAfterRestart ==
  [score |-> 0, level |-> 1, lives |-> InitialLives, starsCollected |-> 0,
   nextLevelAt |-> FirstLevelAt, gameOver |-> FALSE]

Session ==
  [score |-> score, level |-> level, lives |-> lives,
   starsCollected |-> starsCollected, nextLevelAt |-> nextLevelAt,
   gameOver |-> gameOver]

\* restartGame, called by onKeyDown for "r" / "R"
RestartLives ==
  /\ variant = "lives"
  /\ listening
  /\ events < MaxEvents
  /\ score' = SessionAfterRestart.score
  /\ level' = SessionAfterRestart.level
  /\ lives' = SessionAfterRestart.lives
  /\ starsCollected' = SessionAfterRestart.starsCollected
  /\ nextLevelAt' = SessionAfterRestart.nextLevelAt
  /\ gameOver' = SessionAfterRestart.gameOver
  /\ dirty' = (dirty \/ Session # SessionAfterRestart)
  /\ windForce' = 0
  /\ pressed' = {}
  /\ canTakeStormDamage' = TRUE
  /\ stormHitCooldown' = FALSE
  /\ player' = InitialPlayer2D
  /\ stars' = FreshStars2D
  /\ storms' = << >>
  /\ events' = events + 1
  /\ last' = IF gameOver THEN "restartOver" ELSE "restart"
  /\ obs' = NoObs
  /\ UNCHANGED << variant, windTimeout, flashTimeout, effDeps, rendered, appScore, frames >>
  /\ Unused3D
  /\ StillMounted
  /\ clouds' = FreshClouds
  /\ timers' = [timers EXCEPT !.cooldown = Disarm(@, stormHitCooldown)]
  /\ UnusedHost
  /\ SameDown

\* The timeout callbacks of the 2D components
WindExpire ==
  /\ windTimeout
  /\ windForce' = 0
  /\ windTimeout' = FALSE
  /\ last' = "windExpire"
  /\ obs' = NoObs
  /\ UNCHANGED << variant, player, pressed, stars, storms, flashTimeout,
                  stormHitCooldown, canTakeStormDamage, score, level, lives,
                  starsCollected, nextLevelAt, gameOver, effDeps, rendered, dirty,
                  appScore, frames, events >>
  /\ Unused3D
  /\ StillMounted
  /\ timers' = [timers EXCEPT !.wind = Disarm(@, TRUE)]
  /\ UnusedHost
  /\ SameClouds
  /\ SameDown

FlashExpire ==
  /\ flashTimeout
  /\ flashTimeout' = FALSE
  /\ last' = "flashExpire"
  /\ obs' = NoObs
  /\ UNCHANGED << variant, player, pressed, stars, storms, windForce, windTimeout,
                  stormHitCooldown, canTakeStormDamage, score, level, lives,
                  starsCollected, nextLevelAt, gameOver, effDeps, rendered, dirty,
                  appScore, frames, events >>
  /\ Unused3D
  /\ StillMounted
  /\ timers' = [timers EXCEPT !.flash = Disarm(@, TRUE)]
  /\ UnusedHost
  /\ SameClouds
  /\ SameDown

CooldownExpire ==
  /\ stormHitCooldown
  /\ canTakeStormDamage' = TRUE
  /\ stormHitCooldown' = FALSE
  /\ last' = "cooldownExpire"
  /\ obs' = NoObs
  /\ UNCHANGED << variant, player, pressed, stars, storms, windForce, windTimeout,
                  flashTimeout, score, level, lives,
                  starsCollected, nextLevelAt, gameOver, effDeps, rendered, dirty,
                  appScore, frames, events >>
  /\ Unused3D
  /\ StillMounted
  /\ timers' = [timers EXCEPT !.cooldown = Disarm(@, TRUE)]
  /\ UnusedHost
  /\ SameClouds
  /\ SameDown

\* a cleanup that forgets the flash timeout
TimeoutsAfterUnmountKeepsFlash ==
  [wind |-> FALSE, flash |-> flashTimeout, cooldown |-> FALSE]

\* Cleanup for timers on unmount: the timeouts that are still pending after it
TimeoutsAfterUnmount == [wind |-> FALSE, flash |-> FALSE, cooldown |-> FALSE]

\* Unmount of the lives-based GameCanvas, the cleanups in the order of their
\* effects: the key listeners, the pending frame, the timeouts and the refs
UnmountLives ==
  /\ variant = "lives"
  /\ mounted
  /\ mounted' = FALSE
  /\ listening' = FALSE
  /\ raf' = CancelFrame(raf)
  /\ windTimeout' = TimeoutsAfterUnmount.wind
  /\ flashTimeout' = TimeoutsAfterUnmount.flash
  /\ stormHitCooldown' = TimeoutsAfterUnmount.cooldown
  /\ pressed' = {}
  /\ stars' = << >>
  /\ storms' = << >>
  /\ last' = "unmount"
  /\ obs' = NoObs
  /\ UNCHANGED << variant, player, windForce, canTakeStormDamage, score, level, lives,
                  starsCollected, nextLevelAt, gameOver, effDeps, rendered, dirty,
                  appScore, frames, events >>
  /\ Unused3D
  /\ clouds' = << >>
  /\ timers' = [wind |-> Disarm(timers.wind, windTimeout),
                 flash |-> IF TimeoutsAfterUnmount.flash THEN timers.flash
                           ELSE Disarm(timers.flash, flashTimeout),
                 cooldown |-> Disarm(timers.cooldown, stormHitCooldown)]
  /\ UnusedHost
  /\ SameDown

-----------------------------------------------------------------------------
(* Start states of the lives-based variant: the session as mounted, with the  *)
(* player and the entities at places the scrolling and the physics bring them *)
(* to (a star respawns at any y in [80, 280), a storm at any y in [80, 200)). *)

FarStars2D ==
  [i \in 1..StarCount2D |->
     [x |-> (300 + (i - 1) * 30) * 100, y |-> FreshStarY, speed |-> StarSpeed0]]

\* the first Len(at) stars of FarStars2D moved to the places `at`
StarsAt(at) ==
  [i \in 1..StarCount2D |->
     IF i <= Len(at) THEN [FarStars2D[i] EXCEPT !.x = at[i][1], !.y = at[i][2]]
                     ELSE FarStars2D[i]]

Apex == [x |-> 100 * 100, y |-> 166 * 100, vy |-> 0, grounded |-> FALSE]

UnderCeiling == [x |-> 100 * 100, y |-> 12 * 100, vy |-> -400, grounded |-> FALSE]

Calm == [force |-> 0, timeout |-> FALSE]

ScenesLives ==
  { [player |-> InitialPlayer2D, stars |-> FreshStars2D, storms |-> << >>,
     pressed |-> {}, wind |-> Calm],
    \* on the ground, ArrowDown pressed and released since the last frame
    [player |-> [InitialPlayer2D EXCEPT !.vy = DownImpulse], stars |-> FarStars2D,
     storms |-> << >>, pressed |-> {}, wind |-> Calm],
    \* a star exactly at the player's position
    [player |-> InitialPlayer2D,
     stars |-> StarsAt(<< <<InitialPlayer2D.x, InitialPlayer2D.y>> >>),
     storms |-> << >>, pressed |-> {}, wind |-> Calm],
    \* the same while walking right into a gust
    [player |-> InitialPlayer2D,
     stars |-> StarsAt(<< <<InitialPlayer2D.x, InitialPlayer2D.y>> >>),
     storms |-> << >>, pressed |-> {"ArrowRight"},
     wind |-> [force |-> GustForce(1, 1), timeout |-> TRUE]],
    \* five stars within reach at once
    [player |-> InitialPlayer2D,
     stars |-> StarsAt([i \in 1..5 |-> <<(100 + 5 * i) * 100, 260 * 100>>]),
     storms |-> << >>, pressed |-> {}, wind |-> Calm],
    \* at the top of a jump, two storms one tick from touching
    [player |-> Apex, stars |-> FarStars2D,
     storms |-> << [x |-> 171 * 100, y |-> 180 * 100, speed |-> 200],
                   [x |-> 172 * 100, y |-> 185 * 100, speed |-> 300] >>,
     pressed |-> {}, wind |-> Calm],
    \* the same at the left wall, holding left
    [player |-> [Apex EXCEPT !.x = MinX2D], stars |-> FarStars2D,
     storms |-> << [x |-> 71 * 100, y |-> 180 * 100, speed |-> 200] >>,
     pressed |-> {"ArrowLeft"}, wind |-> Calm],
    \* at the right wall, holding right in a gust to the right
    [player |-> [InitialPlayer2D EXCEPT !.x = MaxX2D], stars |-> FarStars2D,
     storms |-> << >>, pressed |-> {"ArrowRight"},
     wind |-> [force |-> GustForce(1, 1), timeout |-> TRUE]],
    \* carried up by repeated airborne Up boosts, one tick below the ceiling; a
    \* star and a storm about to leave at the left edge
    [player |-> UnderCeiling, stars |-> StarsAt(<< <<-4 * 100, 180 * 100>> >>),
     storms |-> << [x |-> -39 * 100, y |-> 180 * 100, speed |-> 200] >>,
     pressed |-> {}, wind |-> Calm] }

InitLives ==
  /\ variant = "lives"
  /\ \E sc \in ScenesLives :
       /\ player = sc.player
       /\ stars = sc.stars
       /\ storms = sc.storms
       /\ pressed = sc.pressed
       /\ windForce = sc.wind.force
       /\ windTimeout = sc.wind.timeout
  /\ windUntil = -1
  /\ flashTimeout = FALSE
  /\ stormHitCooldown = FALSE
  /\ canTakeStormDamage = TRUE
  /\ score = 0
  /\ level = 1
  /\ lives = InitialLives
  /\ starsCollected = 0
  /\ nextLevelAt = FirstLevelAt
  /\ gameOver = FALSE
  /\ target = 0
  /\ speed = 0
  /\ message = [text |-> "", n |-> 0]
  /\ msgTimeout = FALSE
  /\ msgCleanup = FALSE
  /\ effDeps = << 0, FirstLevelAt, FALSE, 1 >>
  /\ rendered = [gameOver |-> FALSE, level |-> 1, speed |-> 0]
  /\ dirty = FALSE
  /\ appScore = 0
  /\ mounted = TRUE
  /\ raf = 1
  /\ listening = TRUE
  /\ last = "init"
  /\ obs = NoObs
  /\ frames = 0
  /\ events = 0
  /\ clouds = CloudsInPlay
  /\ timers = TimersOf(windTimeout, flashTimeout, stormHitCooldown)
  /\ HostIdle
  /\ downRecent = (player.vy = DownImpulse)

-----------------------------------------------------------------------------
(* Game3D: CONFIG, in 1/10000 world units; time in units of 50 ms *)

BaseForwardSpeed == 1200
JumpVelocity == 2300
Gravity3D == -150
MoveSpeed == 1200
MinX3D == -3 * 10000
MaxX3D == 3 * 10000
StartY == 6000
PlayerZ == 2 * 10000
PlayerRadius == 3500
StarRadius3D == 3000
StarHalf == [x |-> 2500, y |-> 2500, z |-> 2500]
StormSize == [x |-> 14000, y |-> 8000, z |-> 12000]
StarCount3D == 14
StormCount3D == 8
PassZ == 3 * 10000
WindMaxForce == 600
WindDuration == 36           \* durationMs: 1800
FirstTarget == 8
TargetStep == 6
SpeedStep == 200

InitialPlayer3D == [x |-> 0, y |-> StartY, vy |-> 0, grounded |-> TRUE]

NoMessage == [text |-> "", n |-> 0]
GameOverMessage == [text |-> "Game Over", n |-> 0]
LevelMessage(n) == [text |-> "Level", n |-> n]

clamp(v, lo, hi) == Max(lo, Min(hi, v))

\* sphereAabbIntersect: the squares are taken only of distances within radius
sphereAabbIntersect(center, radius, boxCenter, halfSize) ==
  LET dx == Max(Abs(center.x - boxCenter.x) - halfSize.x, 0)
      dy == Max(Abs(center.y - boxCenter.y) - halfSize.y, 0)
      dz == Max(Abs(center.z - boxCenter.z) - halfSize.z, 0)
  IN  /\ dx <= radius
      /\ dy <= radius
      /\ dz <= radius
      /\ dx * dx + dy * dy + dz * dz <= radius * radius

Center3D(p) == [x |-> p.x, y |-> p.y, z |-> PlayerZ]

StarHits3D(p, s) == sphereAabbIntersect(Center3D(p), StarRadius3D, s, StarHalf)
StormHits3D(p, st) == sphereAabbIntersect(Center3D(p), PlayerRadius, st, StormSize)

\* Math.random() draws of Game3D
GustRolls3D == {-1, 1}              \* (Math.random() * 2 - 1), in halves
LaneDraw == 0                       \* (Math.random() * 8 - 4) * 0.6
StarDrawY == 8000 + 2000            \* 0.8 + Math.random() * 1.1
StormDrawY == 12000                 \* 1.2 + Math.random() * 0.8, 1.0 + Math.random() * 1.3
StarRespawnZ == -(60 + 20) * 10000  \* -60 - Math.random() * 40
StormRespawnZ == -(80 + 30) * 10000 \* -80 - Math.random() * 60
LongGaps == {2, 35}                 \* elapsed time of a frame longer than 50 ms

Draws3D == {[gust |-> FALSE, q |-> 0]} \cup {[gust |-> TRUE, q |-> q] : q \in GustRolls3D}

\* resetEntities
FreshStars3D ==
  [i \in 1..StarCount3D |->
     [x |-> LaneDraw, y |-> StarDrawY, z |-> -((i - 1) * 6 + 10 + 3) * 10000,
      active |-> TRUE]]

FreshStorms3D ==
  [i \in 1..StormCount3D |->
     [x |-> LaneDraw, y |-> StormDrawY, z |-> -((i - 1) * 12 + 20 + 8) * 10000,
      active |-> TRUE]]

\* now - until after dt more units of time (-1: now > until)
Elapse(left, dt) == Max(left - dt, -1)

\* the wind of a frame: a gust starts only when none is active; a passed gust
\* is zeroed
GustStarts(cOver, r, left) == ~cOver /\ r.gust /\ left < 0

WindAfter(cOver, r, left) ==
  LET starts == GustStarts(cOver, r, left)
      f == IF starts THEN r.q * (WindMaxForce \div 2) ELSE windForce
      u == IF starts THEN WindDuration ELSE left
  IN  [force |-> IF u < 0 THEN 0 ELSE f, until |-> u]

\* a jump that leaves grounded set
Move3DGroundedInAir(p, keys, force) ==
  LET lateral == (IF "ArrowLeft" \in keys THEN -1 ELSE 0)
                   + (IF "ArrowRight" \in keys THEN 1 ELSE 0)
      x1 == clamp(p.x + lateral * MoveSpeed + force, MinX3D, MaxX3D)
      jump == Jumps(p, "ArrowUp" \in keys)
      vy1 == IF jump THEN JumpVelocity ELSE p.vy
      vy2 == IF "ArrowDown" \in keys THEN vy1 + (Gravity3D * 4) \div 10 ELSE vy1
      vy3 == vy2 + Gravity3D
      y1 == p.y + vy3
      landed == y1 <= StartY
  IN  [x |-> x1,
       y |-> IF landed THEN StartY ELSE y1,
       vy |-> IF landed THEN 0 ELSE vy3,
       grounded |-> IF landed THEN TRUE ELSE p.grounded]

\* Player controls, gravity and ground collision
Move3D(p, keys, force) ==
  LET lateral == (IF "ArrowLeft" \in keys THEN -1 ELSE 0)
                   + (IF "ArrowRight" \in keys THEN 1 ELSE 0)
      x1 == clamp(p.x + lateral * MoveSpeed + force, MinX3D, MaxX3D)
      jump == Jumps(p, "ArrowUp" \in keys)
      vy1 == IF jump THEN JumpVelocity ELSE p.vy
      g1 == IF jump THEN FALSE ELSE p.grounded
      vy2 == IF "ArrowDown" \in keys THEN vy1 + (Gravity3D * 4) \div 10 ELSE vy1
      vy3 == vy2 + Gravity3D
      y1 == p.y + vy3
      landed == y1 <= StartY
  IN  [x |-> x1,
       y |-> IF landed THEN StartY ELSE y1,
       vy |-> IF landed THEN 0 ELSE vy3,
       grounded |-> IF landed THEN TRUE ELSE g1]

Forward(cSpeed, cLevel) == cSpeed + Min(cLevel * 30, 500)

AdvanceStar(s, fwd) ==
  LET nz == s.z + fwd
  IN  IF nz > PassZ
        THEN [x |-> LaneDraw, y |-> StarDrawY, z |-> StarRespawnZ, active |-> TRUE]
        ELSE [s EXCEPT !.z = nz]

AdvanceStorm(st, fwd) ==
  LET nz == st.z + (fwd * 11) \div 10
  IN  IF nz > PassZ
        THEN [x |-> LaneDraw, y |-> StormDrawY, z |-> StormRespawnZ, active |-> TRUE]
        ELSE [st EXCEPT !.z = nz]

\* a collection test that does not skip inactive stars
Collected3DAnyStar(p, ss) == {i \in 1..Len(ss) : StarHits3D(p, ss[i])}

Collected3D(p, ss) == {i \in 1..Len(ss) : ss[i].active /\ StarHits3D(p, ss[i])}

StormDamage3D(p, sts) == \E i \in 1..Len(sts) : sts[i].active /\ StormHits3D(p, sts[i])

\* the useFrame callback of Runner for a frame of at most 50 ms, c the closure
\* it runs in, r its random draws, left the time to wind.until at this frame
Update3D(c, r, left) ==
  LET w == WindAfter(c.gameOver, r, left)
      p1 == IF c.gameOver THEN player ELSE Move3D(player, pressed, w.force)
      fwd == Forward(c.speed, c.level)
      ss1 == [i \in 1..Len(stars) |-> AdvanceStar(stars[i], fwd)]
      sts1 == [i \in 1..Len(storms) |-> AdvanceStorm(storms[i], fwd)]
      got == IF c.gameOver THEN {} ELSE Collected3D(p1, ss1)
      k == Cardinality(got)
      hit == ~c.gameOver /\ StormDamage3D(p1, sts1)
  IN  [player |-> p1,
       stars |-> [i \in 1..Len(ss1) |->
                    IF i \in got THEN [ss1[i] EXCEPT !.active = FALSE] ELSE ss1[i]],
       storms |-> sts1,
       windForce |-> w.force, windUntil |-> w.until,
       score |-> score + k, appScore |-> Notify(appScore, k),
       gameOver |-> (gameOver \/ hit),
       message |-> IF hit THEN GameOverMessage ELSE message,
       obs |-> [hits |-> IF hit THEN 1 ELSE 0, stars |-> k, gust |-> r.gust],
       cost |-> IF GustStarts(c.gameOver, r, left) THEN 1 ELSE 0]

Unused2D ==
  UNCHANGED << windTimeout, flashTimeout, stormHitCooldown, canTakeStormDamage,
               lives, starsCollected, nextLevelAt >>

Frame3D ==
  /\ variant = "3d"
  /\ raf > 0
  /\ ~dirty
  /\ frames < MaxFrames
  /\ \E r \in Draws3D :
       LET u == Update3D(rendered, r, Elapse(windUntil, 1))
       IN  /\ events + u.cost <= MaxEvents
           /\ player' = u.player
           /\ stars' = u.stars
           /\ storms' = u.storms
           /\ windForce' = u.windForce
           /\ windUntil' = u.windUntil
           /\ score' = u.score
           /\ appScore' = u.appScore
           /\ gameOver' = u.gameOver
           /\ message' = u.message
           /\ obs' = u.obs
           /\ events' = events + u.cost
           /\ dirty' = (u.score # score \/ u.gameOver # gameOver \/ u.message # message)
  /\ frames' = frames + 1
  /\ last' = "frame"
  /\ UNCHANGED << variant, pressed, level, target, speed, msgTimeout, msgCleanup,
                  effDeps, rendered >>
  /\ Unused2D
  /\ StillMounted
  /\ UnusedHost
  /\ SameClouds
  /\ SameTimers
  /\ SameDown

\* a long frame that is applied like any other
LongFrame3DApplied ==
  /\ variant = "3d"
  /\ raf > 0
  /\ ~dirty
  /\ frames < MaxFrames
  /\ \E dt \in LongGaps, r \in Draws3D :
       LET u == Update3D(rendered, r, Elapse(windUntil, dt))
       IN  /\ events + u.cost <= MaxEvents
           /\ player' = u.player
           /\ stars' = u.stars
           /\ storms' = u.storms
           /\ windForce' = u.windForce
           /\ windUntil' = u.windUntil
           /\ score' = u.score
           /\ appScore' = u.appScore
           /\ gameOver' = u.gameOver
           /\ message' = u.message
           /\ obs' = u.obs
           /\ events' = events + u.cost
           /\ dirty' = (u.score # score \/ u.gameOver # gameOver \/ u.message # message)
  /\ frames' = frames + 1
  /\ last' = "longFrame"
  /\ UNCHANGED << variant, pressed, level, target, speed, msgTimeout, msgCleanup,
                  effDeps, rendered >>
  /\ Unused2D
  /\ StillMounted
  /\ UnusedHost
  /\ SameClouds
  /\ SameTimers
  /\ SameDown

\* a frame whose delta exceeds 0.05 s: the callback returns at once
LongFrame3D ==
  /\ variant = "3d"
  /\ raf > 0
  /\ ~dirty
  /\ frames < MaxFrames
  /\ \E dt \in LongGaps : windUntil' = Elapse(windUntil, dt)
  /\ frames' = frames + 1
  /\ last' = "longFrame"
  /\ obs' = NoObs
  /\ UNCHANGED << variant, player, pressed, stars, storms, windForce, score, level,
                  gameOver, target, speed, message, msgTimeout, msgCleanup, effDeps,
                  rendered, dirty, appScore, events >>
  /\ Unused2D
  /\ StillMounted
  /\ UnusedHost
  /\ SameClouds
  /\ SameTimers
  /\ SameDown

\* a level-up that leaves the speed where it was
SpeedAfterLevelUpKept(s) == s

\* setSpeed((s) => s + 0.02)
SpeedAfterLevelUp(s) == s + SpeedStep

\* a level-up test without the gameOver guard
LevelUp3DUngated == score >= target

\* The level progression effect of Game3D
LevelUp3D == score >= target /\ ~gameOver

\* Re-render of Game3D: new closures, then the level progression effect when one
\* of its dependencies changed: the cleanup of its last run, then its body
Commit3D ==
  /\ variant = "3d"
  /\ mounted
  /\ dirty
  /\ rendered' = Closure
  /\ LET deps == << score, target, gameOver, level >>
         runs == deps # effDeps
         up == runs /\ LevelUp3D
     IN  /\ effDeps' = deps
         /\ level' = IF up THEN NextLevel(level) ELSE level
         /\ target' = IF up THEN target + TargetStep ELSE target
         /\ speed' = IF up THEN SpeedAfterLevelUp(speed) ELSE speed
         /\ message' = IF up THEN LevelMessage(level + 1) ELSE message
         /\ msgTimeout' = IF up THEN TRUE
                          ELSE IF runs /\ msgCleanup THEN FALSE
                          ELSE msgTimeout
         /\ msgCleanup' = IF runs THEN up ELSE msgCleanup
         /\ dirty' = up
  /\ last' = "commit"
  /\ obs' = NoObs
  /\ UNCHANGED << variant, player, pressed, stars, storms, windForce, windUntil,
                  score, gameOver, appScore, frames, events >>
  /\ Unused2D
  /\ StillMounted
  /\ UnusedHost
  /\ SameClouds
  /\ SameTimers
  /\ SameDown

\* the timeout of the level effect: setMessage("")
MsgExpire ==
  /\ msgTimeout
  /\ msgTimeout' = FALSE
  /\ message' = NoMessage
  /\ dirty' = (dirty \/ message # NoMessage)
  /\ last' = "msgExpire"
  /\ obs' = NoObs
  /\ UNCHANGED << variant, player, pressed, stars, storms, windForce, windUntil,
                  score, level, gameOver, target, speed, msgCleanup, effDeps,
                  rendered, appScore, frames, events >>
  /\ Unused2D
  /\ StillMounted
  /\ UnusedHost
  /\ SameClouds
  /\ SameTimers
  /\ SameDown

\* useKeyboard: keydown of an arrow key
KeyDown3D ==
  /\ variant = "3d"
  /\ listening
  /\ events < MaxEvents
  /\ \E k \in Arrows : pressed' = pressed \cup {k}
  /\ events' = events + 1
  /\ last' = "keydown"
  /\ obs' = NoObs
  /\ UNCHANGED << variant, player, stars, storms, windForce, windUntil, score, level,
                  gameOver, target, speed, message, msgTimeout, msgCleanup, effDeps,
                  rendered, dirty, appScore, frames >>
  /\ Unused2D
  /\ StillMounted
  /\ UnusedHost
  /\ SameClouds
  /\ SameTimers
  /\ SameDown

\* restart, from the R key or the Restart button
Restart3D ==
  /\ variant = "3d"
  /\ events < MaxEvents
  /\ level' = 1
  /\ score' = 0
  /\ target' = FirstTarget
  /\ gameOver' = FALSE
  /\ speed' = BaseForwardSpeed
  /\ message' = NoMessage
  /\ dirty' = (dirty \/ level # 1 \/ score # 0 \/ target # FirstTarget \/ gameOver
                 \/ speed # BaseForwardSpeed \/ message # NoMessage)
  /\ player' = InitialPlayer3D
  /\ windForce' = 0
  /\ windUntil' = -1
  /\ stars' = FreshStars3D
  /\ storms' = FreshStorms3D
  /\ events' = events + 1
  /\ last' = IF gameOver THEN "restartOver" ELSE "restart"
  /\ obs' = NoObs
  /\ UNCHANGED << variant, pressed, msgTimeout, msgCleanup, effDeps, rendered,
                  appScore, frames >>
  /\ Unused2D
  /\ StillMounted
  /\ UnusedHost
  /\ SameClouds
  /\ SameTimers
  /\ SameDown

\* Scenes of Game3D: placements the runner reaches in play
StarsWith(first) == [i \in 1..StarCount3D |-> IF i = 1 THEN first ELSE FreshStars3D[i]]
StormsWith(first) == [i \in 1..StormCount3D |-> IF i = 1 THEN first ELSE FreshStorms3D[i]]
StarsWithTwo(first, second) ==
  [i \in 1..StarCount3D |-> IF i = 1 THEN first ELSE IF i = 2 THEN second ELSE FreshStars3D[i]]

Rising == [x |-> 0, y |-> StartY + JumpVelocity + Gravity3D,
           vy |-> JumpVelocity + Gravity3D, grounded |-> FALSE]

Still == [force |-> 0, until |-> -1]

Scenes3D ==
  { \* right after mount
    [player |-> InitialPlayer3D, stars |-> FreshStars3D, storms |-> FreshStorms3D,
     pressed |-> {}, wind |-> Still, score |-> 0],
    \* a star exactly at the position of the rising player
    [player |-> Rising,
     stars |-> StarsWith([x |-> Rising.x, y |-> Rising.y, z |-> PlayerZ, active |-> TRUE]),
     storms |-> FreshStorms3D, pressed |-> {"ArrowUp"}, wind |-> Still, score |-> 1],
    \* two stars short of the first target, two stars in reach at once
    [player |-> InitialPlayer3D,
     stars |-> StarsWithTwo([x |-> 0, y |-> StarDrawY, z |-> PlayerZ - 6000, active |-> TRUE],
                            [x |-> 1000, y |-> StarDrawY, z |-> PlayerZ - 5000, active |-> TRUE]),
     storms |-> FreshStorms3D, pressed |-> {}, wind |-> Still, score |-> FirstTarget - 2],
    \* a storm arriving in the lane of the player, a star in reach as well
    [player |-> InitialPlayer3D,
     stars |-> StarsWith([x |-> 0, y |-> StarDrawY, z |-> PlayerZ - 6000, active |-> TRUE]),
     storms |-> StormsWith([x |-> 0, y |-> StormDrawY, z |-> 4000, active |-> TRUE]),
     pressed |-> {"ArrowRight"}, wind |-> Still, score |-> FirstTarget - 1],
    \* at the right bound in a gust about to pass, a storm about to pass as well
    \* and a star collected earlier that is about to pass
    [player |-> [InitialPlayer3D EXCEPT !.x = MaxX3D],
     stars |-> StarsWith([x |-> 0, y |-> StarDrawY, z |-> PassZ - 500, active |-> FALSE]),
     storms |-> StormsWith([x |-> 0, y |-> StormDrawY, z |-> PassZ - 1000, active |-> TRUE]),
     pressed |-> {"ArrowRight"}, wind |-> [force |-> WindMaxForce \div 2, until |-> 1],
     score |-> 0] }

Init3D ==
  /\ variant = "3d"
  /\ \E sc \in Scenes3D :
       /\ player = sc.player
       /\ stars = sc.stars
       /\ storms = sc.storms
       /\ pressed = sc.pressed
       /\ windForce = sc.wind.force
       /\ windUntil = sc.wind.until
       /\ score = sc.score
       /\ appScore = sc.score
       /\ effDeps = << sc.score, FirstTarget, FALSE, 1 >>
  /\ level = 1
  /\ target = FirstTarget
  /\ gameOver = FALSE
  /\ speed = BaseForwardSpeed
  /\ message = NoMessage
  /\ msgTimeout = FALSE
  /\ msgCleanup = FALSE
  /\ rendered = [gameOver |-> FALSE, level |-> 1, speed |-> BaseForwardSpeed]
  /\ dirty = FALSE
  /\ windTimeout = FALSE
  /\ flashTimeout = FALSE
  /\ stormHitCooldown = FALSE
  /\ canTakeStormDamage = TRUE
  /\ lives = 0
  /\ starsCollected = 0
  /\ nextLevelAt = 0
  /\ mounted = TRUE
  /\ raf = 1
  /\ listening = TRUE
  /\ last = "init"
  /\ obs = NoObs
  /\ frames = 0
  /\ events = 0
  /\ clouds = << >>
  /\ timers = TimersOf(FALSE, FALSE, FALSE)
  /\ HostIdle
  /\ downRecent = FALSE

-----------------------------------------------------------------------------
(* basic GameCanvas: no session state, Space to jump, onScore to the host *)

MaxStormsBasic == 3
StormSpeedBasic == 200
SpawnStormYBasic == (100 + 50) * 100   \* 100 + Math.random() * 100

\* computerControl of the basic component
SpawnStormBasic(sts, r) ==
  IF r.spawn /\ Len(sts) < MaxStormsBasic
    THEN Append(sts, [x |-> W, y |-> SpawnStormYBasic, speed |-> StormSpeedBasic])
    ELSE sts

GustForceBasic(q) == q * 50               \* (q / 4) * 2

\* Apply gravity + wind to player, ground
MoveBasic(p, wind) ==
  LET vy1 == p.vy + Gravity2D
      y1 == p.y + vy1
      x1 == p.x + wind
      onGround == y1 + PlayerSize > GroundLine
  IN  [x |-> x1,
       y |-> IF onGround THEN GroundLine - PlayerSize ELSE y1,
       vy |-> IF onGround THEN 0 ELSE vy1,
       grounded |-> IF onGround THEN TRUE ELSE p.grounded]

\* update() of the basic component, r its random draws
UpdateBasic(r) ==
  LET sts0 == SpawnStormBasic(storms, r)
      wind == IF r.gust THEN GustForceBasic(r.q) ELSE windForce
      ss1 == [i \in 1..Len(stars) |-> ScrollStar(stars[i])]
      sts1 == [i \in 1..Len(sts0) |-> ScrollStorm(sts0[i])]
      p1 == MoveBasic(player, wind)
      k == Cardinality(CollectedStars(p1, ss1))
  IN  [player |-> p1,
       stars |-> RespawnCollected(p1, ss1),
       storms |-> sts1,
       windForce |-> wind, windTimeout |-> (windTimeout \/ r.gust),
       flashTimeout |-> (flashTimeout \/ k > 0),
       appScore |-> Notify(appScore, k),
       timers |-> [wind |-> IF r.gust THEN Rearm(timers.wind, windTimeout)
                                      ELSE timers.wind,
                   flash |-> RearmTimes(timers.flash, flashTimeout, k),
                   cooldown |-> timers.cooldown],
       obs |-> [hits |-> 0, stars |-> k, gust |-> r.gust],
       cost |-> Cost(r, Len(storms), MaxStormsBasic)]

UnusedSession ==
  UNCHANGED << pressed, stormHitCooldown, canTakeStormDamage, score, level, lives,
               starsCollected, nextLevelAt, gameOver, effDeps, rendered, dirty >>

\* requestAnimationFrame(update) of the basic component
FrameBasic ==
  /\ variant = "basic"
  /\ raf > 0
  /\ frames < MaxFrames
  /\ \E r \in Draws2D :
       LET u == UpdateBasic(r)
       IN  /\ events + u.cost <= MaxEvents
           /\ player' = u.player
           /\ stars' = u.stars
           /\ storms' = u.storms
           /\ windForce' = u.windForce
           /\ windTimeout' = u.windTimeout
           /\ flashTimeout' = u.flashTimeout
           /\ timers' = u.timers
           /\ appScore' = u.appScore
           /\ obs' = u.obs
           /\ events' = events + u.cost
  /\ frames' = frames + 1
  /\ last' = "frame"
  /\ UNCHANGED variant
  /\ UnusedSession
  /\ Unused3D
  /\ StillMounted
  /\ clouds' = [i \in 1..Len(clouds) |-> ScrollCloud(clouds[i])]
  /\ UnusedHost
  /\ SameDown

\* onKeyDown of the basic component: Space
KeyDownBasic ==
  /\ variant = "basic"
  /\ listening
  /\ events < MaxEvents
  /\ player' = IF Jumps(player, TRUE)
                 THEN [player EXCEPT !.vy = JumpPower, !.grounded = FALSE]
                 ELSE player
  /\ events' = events + 1
  /\ last' = "keydown"
  /\ obs' = NoObs
  /\ UNCHANGED << variant, stars, storms, windForce, windTimeout, flashTimeout,
                  appScore, frames >>
  /\ UnusedSession
  /\ Unused3D
  /\ StillMounted
  /\ UnusedHost
  /\ SameClouds
  /\ SameTimers
  /\ SameDown

\* Cleanup on unmount of the basic component
UnmountBasic ==
  /\ variant = "basic"
  /\ mounted
  /\ mounted' = FALSE
  /\ listening' = FALSE
  /\ raf' = CancelFrame(raf)
  /\ windTimeout' = FALSE
  /\ flashTimeout' = FALSE
  /\ stars' = << >>
  /\ storms' = << >>
  /\ last' = "unmount"
  /\ obs' = NoObs
  /\ UNCHANGED << variant, player, windForce, appScore, frames, events >>
  /\ UnusedSession
  /\ Unused3D
  /\ clouds' = << >>
  /\ timers' = [wind |-> Disarm(timers.wind, windTimeout),
                 flash |-> Disarm(timers.flash, flashTimeout),
                 cooldown |-> timers.cooldown]
  /\ UnusedHost
  /\ SameDown

ScenesBasic ==
  { \* right after mount
    [player |-> InitialPlayer2D, stars |-> FreshStars2D, storms |-> << >>,
     wind |-> Calm],
    \* a star exactly at the player
    [player |-> InitialPlayer2D,
     stars |-> StarsAt(<< <<InitialPlayer2D.x, InitialPlayer2D.y>> >>),
     storms |-> << >>, wind |-> Calm],
    \* at the top of a jump, inside a storm, a second storm on its way
    [player |-> Apex, stars |-> FarStars2D,
     storms |-> << [x |-> 120 * 100, y |-> 180 * 100, speed |-> StormSpeedBasic],
                   [x |-> 400 * 100, y |-> SpawnStormYBasic, speed |-> StormSpeedBasic] >>,
     wind |-> Calm],
    \* drifting in a gust, half a pixel from the left edge
    [player |-> [InitialPlayer2D EXCEPT !.x = 50], stars |-> FarStars2D,
     storms |-> << >>, wind |-> [force |-> GustForceBasic(-1), timeout |-> TRUE]] }

InitBasic ==
  /\ variant = "basic"
  /\ \E sc \in ScenesBasic :
       /\ player = sc.player
       /\ stars = sc.stars
       /\ storms = sc.storms
       /\ windForce = sc.wind.force
       /\ windTimeout = sc.wind.timeout
  /\ pressed = {}
  /\ flashTimeout = FALSE
  /\ stormHitCooldown = FALSE
  /\ canTakeStormDamage = TRUE
  /\ score = 0
  /\ level = 1
  /\ lives = 0
  /\ starsCollected = 0
  /\ nextLevelAt = 0
  /\ gameOver = FALSE
  /\ windUntil = -1
  /\ target = 0
  /\ speed = 0
  /\ message = NoMessage
  /\ msgTimeout = FALSE
  /\ msgCleanup = FALSE
  /\ effDeps = << 0, 0, FALSE, 1 >>
  /\ rendered = [gameOver |-> FALSE, level |-> 1, speed |-> 0]
  /\ dirty = FALSE
  /\ appScore = 0
  /\ mounted = TRUE
  /\ raf = 1
  /\ listening = TRUE
  /\ last = "init"
  /\ obs = NoObs
  /\ frames = 0
  /\ events = 0
  /\ clouds = CloudsInPlay
  /\ timers = TimersOf(windTimeout, flashTimeout, stormHitCooldown)
  /\ HostIdle
  /\ downRecent = FALSE

-----------------------------------------------------------------------------
(* App: the shell around the game component. The game is seen only through *)
(* its calls of the onScore prop.                                          *)

\* what the variables of the game components hold while App alone or the
\* preloading GameCanvas is looked at: the values of a fresh mount
GameIdle ==
  /\ player = InitialPlayer2D
  /\ clouds = FreshClouds
  /\ timers = TimersOf(FALSE, FALSE, FALSE)
  /\ stars = FreshStars2D
  /\ storms = << >>
  /\ windForce = 0
  /\ windTimeout = FALSE
  /\ windUntil = -1
  /\ flashTimeout = FALSE
  /\ stormHitCooldown = FALSE
  /\ canTakeStormDamage = TRUE
  /\ score = 0
  /\ level = 1
  /\ lives = InitialLives
  /\ starsCollected = 0
  /\ nextLevelAt = FirstLevelAt
  /\ gameOver = FALSE
  /\ target = 0
  /\ speed = 0
  /\ message = NoMessage
  /\ msgTimeout = FALSE
  /\ msgCleanup = FALSE
  /\ effDeps = << 0, FirstLevelAt, FALSE, 1 >>
  /\ rendered = [gameOver |-> FALSE, level |-> 1, speed |-> 0]
  /\ obs = NoObs

UnusedGame ==
  UNCHANGED << player, stars, storms, windForce, windTimeout, windUntil, flashTimeout,
               stormHitCooldown, canTakeStormDamage, score, level, lives,
               starsCollected, nextLevelAt, gameOver, target, speed, message,
               msgTimeout, msgCleanup, effDeps, rendered, obs, clouds, timers >>

UnusedPreload == UNCHANGED << assets, assetsLoaded, drawn, flyer, drift >>

\* an interval callback that counts two seconds
TimeAfterTickTwo(t) == t + 2

\* setTime(t => t + 1)
TimeAfterTick(t) == t + 1

\* the setInterval callback of the timer effect, every 1000 ms
IntervalTick ==
  /\ variant = "shell"
  /\ mounted
  /\ time < MaxTime
  /\ time' = TimeAfterTick(time)
  /\ last' = "tick"
  /\ UNCHANGED << variant, pressed, dirty, appScore, mounted, raf, listening, theme, mode3D,
                  frames, events >>
  /\ UnusedGame
  /\ SameDown
  /\ UnusedPreload

\* the game component calls onScore(1)
ScoreShell ==
  /\ variant = "shell"
  /\ mounted
  /\ events < MaxEvents
  /\ appScore' = onScore(appScore, 1)
  /\ events' = events + 1
  /\ last' = "onScore"
  /\ UNCHANGED << variant, pressed, dirty, mounted, raf, listening, time, theme, mode3D, frames >>
  /\ UnusedGame
  /\ SameDown
  /\ UnusedPreload

\* toggleTheme
ToggleTheme ==
  /\ variant = "shell"
  /\ mounted
  /\ theme' = IF theme = "light" THEN "dark" ELSE "light"
  /\ last' = "toggleTheme"
  /\ UNCHANGED << variant, pressed, dirty, appScore, mounted, raf, listening, time,
                  mode3D, frames, events >>
  /\ UnusedGame
  /\ SameDown
  /\ UnusedPreload

\* a mode switch that starts App afresh
AppAfterToggleFresh(app) == [score |-> 0, mode3D |-> ~app.mode3D]

\* setMode3D(m => !m), on App's [score, mode3D]
AppAfterToggle(app) == [app EXCEPT !.mode3D = ~@]

\* toggleMode: the other game component is mounted in place of the current one
ToggleMode ==
  /\ variant = "shell"
  /\ mounted
  /\ LET app == AppAfterToggle([score |-> appScore, mode3D |-> mode3D])
     IN  /\ appScore' = app.score
         /\ mode3D' = app.mode3D
  /\ last' = "toggleMode"
  /\ UNCHANGED << variant, pressed, dirty, mounted, raf, listening, time, theme,
                  frames, events >>
  /\ UnusedGame
  /\ SameDown
  /\ UnusedPreload

\* App right after mount: useState('light'), useState(0), useState(0)
InitShell ==
  /\ variant = "shell"
  /\ GameIdle
  /\ pressed = {}
  /\ dirty = FALSE
  /\ appScore = 0
  /\ time = 0
  /\ theme = "light"
  /\ mode3D = FALSE
  /\ mounted = TRUE
  /\ raf = 0
  /\ listening = FALSE
  /\ assets = << >>
  /\ assetsLoaded = FALSE
  /\ drawn = {}
  /\ flyer = [x |-> 0, y |-> 0]
  /\ drift = << >>
  /\ last = "init"
  /\ frames = 0
  /\ events = 0
  /\ downRecent = FALSE

-----------------------------------------------------------------------------
(* The preloading GameCanvas: five images are loaded before the loop starts. *)
(* Lengths in 1/100 px. Clouds are decoration and are not modelled.          *)

AssetNames == {"bg", "player", "star", "cloud", "storm"}

\* the order in which the preload effect calls loadImage, which is the order
\* in which the five timeouts of equal delay fire
LoadOrder == << "bg", "player", "star", "cloud", "storm" >>

CanvasH == 330 * 100
FlyerW == 28 * 100
FlyerH == 28 * 100
FlyerSpeed == 260
FlyerMinY == 60 * 100
DriftCount == 8
DriftSpeed == 150                \* 1.2 + Math.random() * 0.5
DriftY == (90 + 60) * 100        \* 90 + Math.random() * 120
DriftRespawnDx == 50 * 100       \* Math.random() * 100
DriftLeft == -20 * 100

\* an image right after loadImage has been called on it: `what` is what the
\* network will do with it ("load", "error", or "never" an event)
Loading(what) ==
  [what |-> what, dom |-> "loading", timer |-> TRUE, settled |-> FALSE,
   ok |-> FALSE, resolves |-> 0]

\* a loadImage whose handlers do not look at `settled`
ResolveAgain(o, ok) ==
  [o EXCEPT !.settled = TRUE, !.ok = IF o.settled THEN @ ELSE ok, !.resolves = @ + 1]

\* loadImage's three handlers: the first one resolves the promise, whose then
\* callback writes the ok flag; the later ones return at once
Resolve(o, ok) ==
  IF o.settled THEN o
  ELSE [o EXCEPT !.settled = TRUE, !.ok = ok, !.resolves = @ + 1]

\* Promise.allSettled(tasks).then(() => setAssetsLoaded(true))
AllSettled(as) == \A a \in AssetNames : as[a].settled

\* a guard that trusts the DOM state of the image alone
canDrawComplete(o) == o.dom = "complete"

\* canDraw: the ok flag of the loader and a complete image of nonzero width
canDraw(o) == o.ok /\ o.dom = "complete"

\* a loop effect without its guard
LoopStartsAlways(loaded) == TRUE

\* the main loop effect: if (!assetsLoaded) return
LoopStarts(loaded) == loaded

\* an image event has changed asset a to o
AssetEvent(a, o) ==
  LET as == [assets EXCEPT ![a] = o]
      done == AllSettled(as) /\ ~AllSettled(assets)
  IN  /\ assets' = as
      /\ assetsLoaded' = (assetsLoaded \/ done)
      /\ dirty' = (dirty \/ done)
      /\ UNCHANGED << variant, pressed, appScore, mounted, raf, listening, drawn, flyer,
                      drift, time, theme, mode3D, frames, events >>
      /\ UnusedGame
      /\ SameDown
  /\ SameDown

\* img.onload
ImageLoad ==
  /\ variant = "preload"
  /\ \E a \in AssetNames :
       /\ assets[a].what = "load"
       /\ assets[a].dom = "loading"
       /\ AssetEvent(a, Resolve([assets[a] EXCEPT !.dom = "complete"], TRUE))
  /\ last' = "onload"

\* img.onerror
ImageError ==
  /\ variant = "preload"
  /\ \E a \in AssetNames :
       /\ assets[a].what = "error"
       /\ assets[a].dom = "loading"
       /\ AssetEvent(a, Resolve([assets[a] EXCEPT !.dom = "broken"], FALSE))
  /\ last' = "onerror"

\* the 8000 ms safety timeout of loadImage
ImageTimeout(a) ==
  /\ variant = "preload"
  /\ assets[a].timer
  /\ \A i, j \in 1..Len(LoadOrder) :
       (i < j /\ LoadOrder[j] = a) => ~assets[LoadOrder[i]].timer
  /\ AssetEvent(a, Resolve([assets[a] EXCEPT !.timer = FALSE], FALSE))
  /\ last' = "timeout"

\* Re-render after setAssetsLoaded(true): the main loop effect runs again
CommitPreload ==
  /\ variant = "preload"
  /\ mounted
  /\ dirty
  /\ dirty' = FALSE
  /\ raf' = IF LoopStarts(assetsLoaded) THEN 1 ELSE 0
  /\ last' = "commit"
  /\ UNCHANGED << variant, pressed, appScore, mounted, listening, time, theme, mode3D, frames,
                  events >>
  /\ UnusedGame
  /\ SameDown
  /\ UnusedPreload

\* stars drift; a star that left the screen is put back and scores
DriftStar(s) ==
  LET nx == s.x - s.speed
  IN  IF nx < DriftLeft
        THEN [s EXCEPT !.x = W + DriftRespawnDx, !.y = DriftY]
        ELSE [s EXCEPT !.x = nx]

Passed(ss) == {i \in 1..Len(ss) : ss[i].x - ss[i].speed < DriftLeft}

\* player control and clamps
MoveFlyer(p, keys) ==
  LET x1 == p.x - (IF "ArrowLeft" \in keys THEN FlyerSpeed ELSE 0)
                + (IF "ArrowRight" \in keys THEN FlyerSpeed ELSE 0)
      y1 == p.y - (IF "ArrowUp" \in keys THEN FlyerSpeed ELSE 0)
                + (IF "ArrowDown" \in keys THEN FlyerSpeed ELSE 0)
  IN  [x |-> Max(0, Min(W - FlyerW, x1)),
       y |-> Max(FlyerMinY, Min(CanvasH - FlyerH - 10 * 100, y1))]

\* update() of the preloading GameCanvas: each image is drawn with drawImage
\* if canDraw allows it and with its fallback otherwise
FramePreload ==
  /\ variant = "preload"
  /\ raf > 0
  /\ ~dirty
  /\ frames < MaxFrames
  /\ drawn' = {a \in AssetNames : canDraw(assets[a])}
  /\ drift' = [i \in 1..Len(drift) |-> DriftStar(drift[i])]
  /\ appScore' = Notify(appScore, Cardinality(Passed(drift)))
  /\ flyer' = MoveFlyer(flyer, pressed)
  /\ frames' = frames + 1
  /\ last' = "draw"
  /\ UNCHANGED << variant, pressed, dirty, mounted, raf, listening, assets, assetsLoaded,
                  time, theme, mode3D, events >>
  /\ UnusedGame
  /\ SameDown

\* the keydown and keyup listeners
KeyDownPreload ==
  /\ variant = "preload"
  /\ listening
  /\ events < MaxEvents
  /\ \E k \in Arrows : k \notin pressed /\ pressed' = pressed \cup {k}
  /\ events' = events + 1
  /\ last' = "keydown"
  /\ UNCHANGED << variant, dirty, appScore, mounted, raf, listening, time, theme, mode3D, frames >>
  /\ UnusedGame
  /\ SameDown
  /\ UnusedPreload

KeyUpPreload ==
  /\ variant = "preload"
  /\ listening
  /\ events < MaxEvents
  /\ \E k \in pressed : pressed' = pressed \ {k}
  /\ events' = events + 1
  /\ last' = "keyup"
  /\ UNCHANGED << variant, dirty, appScore, mounted, raf, listening, time, theme, mode3D, frames >>
  /\ UnusedGame
  /\ SameDown
  /\ UnusedPreload

FreshDrift ==
  [i \in 1..DriftCount |->
     [x |-> (80 + (i - 1) * 70) * 100, y |-> DriftY, speed |-> DriftSpeed]]

InitialFlyer == [x |-> 100 * 100, y |-> 220 * 100]

\* every image loaded in time, its timeout still pending
Loaded == [what |-> "load", dom |-> "complete", timer |-> TRUE, settled |-> TRUE,
           ok |-> TRUE, resolves |-> 1]

\* Scenes of the preloading GameCanvas: right after mount with what the
\* network will do with each image, and in play
ScenesPreload ==
  { \* right after mount, one image is broken and two never answer
    [assets |-> [a \in AssetNames |->
                   IF a = "bg" THEN Loading("error")
                   ELSE IF a \in {"cloud", "storm"} THEN Loading("never")
                   ELSE Loading("load")],
     loaded |-> FALSE, drift |-> FreshDrift, flyer |-> InitialFlyer, pressed |-> {}],
    \* right after mount, no image ever answers
    [assets |-> [a \in AssetNames |-> Loading("never")], loaded |-> FALSE,
     drift |-> FreshDrift, flyer |-> InitialFlyer, pressed |-> {}],
    \* in play with every image loaded, the first star about to leave the
    \* screen, the player held against the lower right corner
    [assets |-> [a \in AssetNames |-> Loaded], loaded |-> TRUE,
     drift |-> [FreshDrift EXCEPT ![1].x = DriftLeft + 100],
     flyer |-> [x |-> W - FlyerW, y |-> CanvasH - FlyerH - 10 * 100],
     pressed |-> {"ArrowRight", "ArrowDown"}] }

InitPreload ==
  /\ variant = "preload"
  /\ GameIdle
  /\ \E sc \in ScenesPreload :
       /\ assets = sc.assets
       /\ assetsLoaded = sc.loaded
       /\ raf = IF LoopStarts(sc.loaded) THEN 1 ELSE 0
       /\ drift = sc.drift
       /\ flyer = sc.flyer
       /\ pressed = sc.pressed
  /\ drawn = {}
  /\ dirty = FALSE
  /\ appScore = 0
  /\ time = 0
  /\ theme = "light"
  /\ mode3D = FALSE
  /\ mounted = TRUE
  /\ listening = TRUE
  /\ last = "init"
  /\ frames = 0
  /\ events = 0
  /\ downRecent = FALSE

-----------------------------------------------------------------------------
Init == InitLives \/ InitBasic \/ Init3D \/ InitShell \/ InitPreload

Next ==
  \/ FrameLives
  \/ CommitLives
  \/ KeyDownLives
  \/ KeyUp
  \/ DownAges
  \/ RestartLives
  \/ WindExpire
  \/ FlashExpire
  \/ CooldownExpire
  \/ UnmountLives
  \/ Frame3D
  \/ LongFrame3D
  \/ Commit3D
  \/ MsgExpire
  \/ KeyDown3D
  \/ Restart3D
  \/ FrameBasic
  \/ KeyDownBasic
  \/ UnmountBasic
  \/ IntervalTick
  \/ ScoreShell
  \/ ToggleTheme
  \/ ToggleMode
  \/ ImageLoad
  \/ ImageError
  \/ \E a \in AssetNames : ImageTimeout(a)
  \/ CommitPreload
  \/ FramePreload
  \/ KeyDownPreload
  \/ KeyUpPreload

Spec == Init /\ [][Next]_vars

\* the browser fires every pending timeout
FairSpec == Spec /\ \A a \in AssetNames : WF_vars(ImageTimeout(a))

-----------------------------------------------------------------------------
(* Properties *)

\* a step that runs update() / the useFrame callback to its end
TickStep == last' = "frame" \/ (variant = "lives" /\ last' = "commit")

RestartStep == last' \in {"restart", "restartOver"}

\* some hazard overlaps the player
HazardOverlap ==
  IF variant = "3d"
    THEN \E i \in 1..Len(storms) : storms[i].active /\ StormHits3D(player, storms[i])
    ELSE \E i \in 1..Len(storms) : StormHits2D(player, storms[i])

\* C1: in the lives-based GameCanvas a tick removes at most one life; a storm
\* overlap on a tick whose invulnerability timeout is not pending removes exactly
\* one, so three such hits take lives from 3 to 2, 1 and 0; an overlap while the
\* timeout is pending removes none; and gameOver is true exactly when lives has
\* reached 0.
C1_LivesLadder ==
  [][ (variant = "lives" /\ TickStep) =>
        /\ lives' \in {lives, lives - 1}
        /\ (stormHitCooldown => lives' = lives)
        /\ (lives' = lives - 1 => obs'.hits > 0 /\ stormHitCooldown')
        /\ ((~gameOver /\ ~stormHitCooldown /\ obs'.hits > 0) => lives' = lives - 1)
        /\ (gameOver' <=> lives' = 0) ]_vars

\* the third damaging hit: lives has gone from 3 to 0 and the game is over
C1_ThirdHit ==
  /\ variant = "lives"
  /\ last \in {"frame", "commit"}
  /\ obs.hits > 0
  /\ lives = 0
  /\ gameOver

\* C2: in the basic 2D GameCanvas and in Game3D, a tick run while Playing with a
\* hazard overlapping the player ends in GameOver.
C2_OverlapFatal ==
  [][ (variant \in {"basic", "3d"} /\ ~gameOver /\ HazardOverlap /\ last' = "frame")
        => gameOver' ]_vars

\* C3: right after a restart from GameOver, score is 0, level 1, the game is not
\* over, the wind is zero and the player is at its initial pose; lives is 3 and
\* the threshold 5 in the lives-based 2D variant, the threshold 8 in Game3D.
C3_RestartResets ==
  last = "restartOver" =>
    /\ score = 0
    /\ level = 1
    /\ ~gameOver
    /\ windForce = 0
    /\ variant = "lives" =>
         /\ lives = 3
         /\ starsCollected = 0
         /\ nextLevelAt = 5
         /\ player = InitialPlayer2D
    /\ variant = "3d" =>
         /\ target = 8
         /\ windUntil = -1
         /\ player = InitialPlayer3D

\* a restart of the lives-based variant from GameOver has just run
C3_RestartedFromOver == variant = "lives" /\ last = "restartOver"

\* C4: right after restartGame, no wind, invulnerability or flash timeout is
\* pending.
C4_RestartClearsTimers ==
  (variant = "lives" /\ last \in {"restart", "restartOver"}) =>
    ~windTimeout /\ ~stormHitCooldown /\ ~flashTimeout

\* C5: while gameOver is true, in the lives-based 2D variant and in Game3D, no
\* step other than a restart changes score, the collected-star count, lives,
\* level or the threshold, and none calls onScore.
C5_Terminal ==
  [][ (variant \in {"lives", "3d"} /\ gameOver /\ ~RestartStep) =>
        UNCHANGED << score, starsCollected, lives, level, nextLevelAt, target,
                     appScore >> ]_vars

\* a frame has run in a closure whose gameOver is true
C5_FrameWhileOver == gameOver /\ rendered.gameOver /\ last = "frame"

\* C6: while gameOver is true in the lives-based variant, a tick leaves the
\* player's x, y, vy and grounded unchanged.
C6_FrozenPlayer ==
  [][ (variant = "lives" /\ gameOver /\ TickStep) => player' = player ]_vars

\* a star of index i lies exactly at the player's position
StarAtPlayer(i) ==
  /\ stars[i].x = player.x
  /\ stars[i].y = player.y
  /\ variant = "3d" => stars[i].z = PlayerZ /\ stars[i].active

StarOverlaps(p, s) == IF variant = "3d" THEN StarHits3D(p, s) ELSE StarHits2D(p, s)

Place(s) == IF variant = "3d" THEN << s.x, s.y, s.z >> ELSE << s.x, s.y >>

\* C7: a tick run while Playing with a collectible exactly at the player's
\* position raises score by exactly 1, moves that collectible and leaves it not
\* overlapping the player.
C7_CollectRespawns ==
  [][ (variant \in {"lives", "3d"} /\ ~gameOver /\ TickStep) =>
        \A i \in 1..Len(stars) :
          StarAtPlayer(i) =>
            /\ score' = score + 1
            /\ Place(stars'[i]) # Place(stars[i])
            /\ ~StarOverlaps(player', stars'[i]) ]_vars

\* C8: level changes, other than by restart, only in the level effect of a
\* re-render while Playing with the collected count at or above the threshold,
\* and then level rises by exactly 1 and the threshold by exactly its step (5 in
\* the lives-based 2D variant, 6 in Game3D); whenever that effect runs in such a
\* state the level-up happens; the threshold changes at no other step.
C8_LevelUp ==
  [][ (variant \in {"lives", "3d"} /\ ~RestartStep) =>
        LET reached == IF variant = "lives" THEN starsCollected >= nextLevelAt
                                            ELSE score >= target
        IN  /\ level' # level =>
                 /\ last' = "commit"
                 /\ ~gameOver
                 /\ reached
                 /\ level' = level + 1
                 /\ IF variant = "lives"
                      THEN nextLevelAt' = nextLevelAt + 5 /\ target' = target
                      ELSE target' = target + 6 /\ nextLevelAt' = nextLevelAt
            /\ level' = level => (nextLevelAt' = nextLevelAt /\ target' = target)
            /\ (last' = "commit" /\ ~gameOver /\ reached) => level' = level + 1 ]_vars

\* the first level-up of the lives-based variant: level 2, threshold 10
C8_SecondLevel ==
  variant = "lives" /\ last = "commit" /\ level = 2 /\ nextLevelAt = 10

\* C9: in Game3D, while Playing, a displayed level-up message always has its
\* clearing timeout pending.
C9_MessageCleared ==
  (variant = "3d" /\ ~gameOver /\ ~dirty /\ message.text = "Level") => msgTimeout

\* C10: after every tick player.x lies within [minX, maxX] (the canvas width
\* less the player's size in the basic variant).
C10_XInRange ==
  IF variant = "3d"
    THEN last = "frame" => (MinX3D <= player.x /\ player.x <= MaxX3D)
    ELSE last \in {"frame", "commit"} => (MinX2D <= player.x /\ player.x <= MaxX2D)

\* C11: after every tick, and in every state between ticks, the player is not
\* below the ground line: y + size <= 280 in the 2D variants, y >= startY in
\* Game3D.
C11_AboveGround ==
  IF variant = "3d"
    THEN player.y >= StartY
    ELSE player.y + PlayerSize <= GroundLine

\* a tick of the lives-based variant has put the player back on the ground line
C11_GroundClamped ==
  /\ variant = "lives"
  /\ last = "frame"
  /\ player.grounded
  /\ player.y + PlayerSize = GroundLine

\* C12: a tick that starts with no key held, no wind and the player grounded,
\* and in which no gust starts, leaves player.y and player.vy unchanged.
C12_RestIdempotent ==
  [][ (TickStep /\ pressed = {} /\ windForce = 0 /\ windForce' = 0 /\ player.grounded)
        => (player'.y = player.y /\ player'.vy = player.vy) ]_vars

\* C13: the wind force is nonzero only before the expiry of its gust: in Game3D
\* after every applied frame whose time is at or past wind.until the force is 0,
\* and in a mounted 2D variant a nonzero force has its timeout pending.
C13_WindDecay ==
  IF variant = "3d"
    THEN (last = "frame" /\ windUntil <= 0) => windForce = 0
    ELSE (mounted /\ windForce # 0) => windTimeout

\* a gust is still running, strictly before its expiry, at the next frame
GustActive == IF variant = "3d" THEN windUntil >= 2 ELSE windTimeout

\* C14: when the gust roll of a Playing tick succeeds while a gust is still
\* active, a new gust replaces it: the force is set anew and the expiry is a
\* full duration away (the 2000 ms timeout pending in 2D, wind.until 1800 ms
\* ahead in Game3D).
C14_GustSupersedes ==
  [][ (TickStep /\ ~gameOver /\ GustActive /\ obs'.gust) =>
        /\ windForce' # 0
        /\ IF variant = "3d" THEN windUntil' = WindDuration ELSE windTimeout' ]_vars

\* the stars as the collision test of the coming tick finds them: moved by the
\* tick, after the star the level effect of the same re-render may have added
StarsTested ==
  IF variant = "3d"
    THEN [i \in 1..Len(stars) |->
            AdvanceStar(stars[i], Forward(rendered.speed, rendered.level))]
    ELSE LET ss == IF Len(stars') > Len(stars)
                     THEN StarsAfterLevelUp(stars, level) ELSE stars
         IN  [i \in 1..Len(ss) |-> ScrollStar(ss[i])]

\* the player as that collision test finds it
PlayerTested ==
  IF variant = "3d" THEN player'
  ELSE IF variant = "lives" THEN MoveLives(player, pressed, windForce')
  ELSE MoveBasic(player, windForce')

Overlapping ==
  {i \in 1..Len(StarsTested) :
     /\ StarOverlaps(PlayerTested, StarsTested[i])
     /\ variant = "3d" => StarsTested[i].active}

\* C15: in a tick run while Playing, if k collectibles overlap the player then
\* the score rises by exactly k (the score reported to the host in the basic
\* variant, which keeps none of its own) and each of the k is consumed: respawned
\* beyond the right edge in 2D, deactivated in Game3D.
C15_NoEarlyExit ==
  [][ (TickStep /\ ~gameOver) =>
        /\ IF variant = "basic"
             THEN appScore' = appScore + Cardinality(Overlapping)
             ELSE score' = score + Cardinality(Overlapping)
        /\ \A i \in Overlapping :
             IF variant = "3d"
               THEN ~stars'[i].active
               ELSE stars'[i] = RespawnStar(StarsTested[i]) ]_vars

\* a tick of the lives-based variant has just collected several stars at once
C15_SeveralAtOnce ==
  variant = "lives" /\ last \in {"frame", "commit"} /\ obs.stars >= 2

\* C16: in the lives-based GameCanvas and in Game3D every tick raises the
\* component's score and App's score by the same amount, the number of scoring
\* events of that tick (one onScore(1) call each); a restart sets the
\* component's score to 0 and makes no call; no other step changes either. So
\* the component's score is the number of onScore calls since the last restart
\* and App's score has grown by the sum of the increments passed.
C16_ScoreNotified ==
  [][ (variant = "lives" \/ variant = "3d") =>
        /\ TickStep =>
             (score' = score + obs'.stars /\ appScore' = appScore + obs'.stars)
        /\ RestartStep => (score' = 0 /\ appScore' = appScore)
        /\ ~TickStep /\ ~RestartStep =>
             (score' = score /\ appScore' = appScore) ]_vars

\* a tick of the lives-based variant has just scored and App has been told
C16_Notified ==
  variant = "lives" /\ last = "frame" /\ obs.stars = 1 /\ score = 1 /\ appScore = 1

\* C17: a Game3D frame whose delta exceeds 50 ms changes neither the player,
\* the wind (its force, and its expiry, which only comes nearer by the time
\* that passed), any star or storm, the score, the level nor gameOver; a frame
\* whose delta is exactly 50 ms is applied: every star and storm moves.
C17_LongFrameDiscarded ==
  [][ /\ (variant = "3d" /\ last' = "longFrame") =>
           /\ UNCHANGED << player, windForce, stars, storms, score, level, gameOver >>
           /\ \E dt \in LongGaps : windUntil' = Elapse(windUntil, dt)
      /\ (variant = "3d" /\ last' = "frame") =>
           /\ \A i \in 1..Len(stars) : stars'[i].z # stars[i].z
           /\ \A i \in 1..Len(storms) : storms'[i].z # storms[i].z ]_vars

\* a long frame has just been discarded while a key was held and a gust blew,
\* so that an applied frame would have moved the player
C17_LongFrameSeen ==
  /\ variant = "3d" /\ last = "longFrame"
  /\ "ArrowRight" \in pressed /\ windForce # 0 /\ ~gameOver

\* C18: once a 2D GameCanvas is unmounted, no wind, flash or invulnerability
\* timeout and no animation frame is pending and the key listeners are removed;
\* and no handler, timeout callback, frame or re-render runs from then on.
C18_TeardownClean ==
  /\ [](~mounted => /\ ~windTimeout /\ ~flashTimeout /\ ~stormHitCooldown
                     /\ raf = 0 /\ ~listening)
  /\ [][mounted]_vars

\* the lives-based GameCanvas was unmounted in the middle of a gust, whose
\* timeout was pending
C18_UnmountedInGust ==
  variant = "lives" /\ ~mounted /\ last = "unmount" /\ windForce # 0

\* C19 as stated: while the component is mounted the number of stars is 10 in
\* the 2D variants and 14 in Game3D.
C19_FixedStarCount ==
  mounted => Len(stars) = IF variant = "3d" THEN StarCount3D ELSE StarCount2D

\* C19: while the component is mounted, Game3D has 14 stars and the basic 2D
\* variant 10; the lives-based 2D variant has 10 + (level - 1): a session
\* starts with 10 at level 1 and each level-up adds one star. The number of
\* stars changes at no step but a level-up (by one), a restart and the unmount.
C19_StarCount ==
  /\ [](mounted =>
          Len(stars) = IF variant = "3d" THEN StarCount3D
                       ELSE IF variant = "basic" THEN StarCount2D
                       ELSE StarCount2D + (level - 1))
  /\ [][ Len(stars') # Len(stars) =>
           \/ RestartStep
           \/ last' = "unmount"
           \/ /\ variant = "lives" /\ last' = "commit"
              /\ level' = level + 1
              /\ Len(stars') = Len(stars) + 1 ]_vars

\* the lives-based variant has levelled up and plays with an eleventh star
C19_EleventhStar ==
  variant = "lives" /\ mounted /\ level = 2 /\ Len(stars) = StarCount2D + 1

\* C20: while the component is mounted the lives-based 2D variant has at most
\* min(2 + floor(level / 2), 5) storms, the basic 2D variant at most 3 and
\* Game3D exactly 8; the number of storms decreases at no step but a restart
\* and the unmount.
C20_StormCap ==
  /\ [](mounted =>
          IF variant = "3d" THEN Len(storms) = 8
          ELSE IF variant = "basic" THEN Len(storms) <= 3
          ELSE Len(storms) <= Min(2 + (level \div 2), 5))
  /\ [][ Len(storms') < Len(storms) => (RestartStep \/ last' = "unmount") ]_vars

\* the lives-based variant plays level 1 with its two storms
C20_AtCap ==
  variant = "lives" /\ mounted /\ level = 1 /\ Len(storms) = 2

\* C21: in the lives-based GameCanvas update() runs only from the frame
\* callback: a re-render that follows a score, level, lives or gameOver change
\* moves neither the player nor any star or storm.
C21_OneTickPerFrame ==
  [][ (variant = "lives" /\ last' = "commit") =>
        /\ player' = player
        /\ storms' = storms
        /\ \A i \in 1..Len(stars) : stars'[i].x = stars[i].x ]_vars

\* C22: every step other than a restart leaves score and level at or above
\* their previous values, and score >= 0 and level >= 1 in every reachable
\* state.
C22_Monotone ==
  /\ [](score >= 0 /\ level >= 1)
  /\ [][ ~RestartStep => (score' >= score /\ level' >= level) ]_vars

\* Game3D has reached its first target and levelled up
C22_Risen ==
  variant = "3d" /\ last = "commit" /\ level = 2 /\ score >= FirstTarget

\* C23: right after App mounts its score is 0 and its time is 0, and time
\* changes at no step but an interval tick, which raises it by exactly 1.
C23_ShellStart ==
  /\ []((variant = "shell" /\ last = "init") => (appScore = 0 /\ time = 0))
  /\ [][ time' # time => (last' = "tick" /\ time' = time + 1) ]_vars

\* the interval has ticked twice
C23_TwoSeconds ==
  variant = "shell" /\ last = "tick" /\ time = 2

\* C24: in the preloading GameCanvas a frame is pending, and update() runs,
\* only when all five image loads have settled.
C24_LoopGated ==
  /\ []((variant = "preload" /\ raf > 0) => AllSettled(assets))
  /\ [][ (variant = "preload" /\ last' = "draw") => AllSettled(assets) ]_vars

\* the loop runs after images that never answered were given up
C24_LoopAfterTimeouts ==
  /\ variant = "preload" /\ last = "draw"
  /\ \E a \in AssetNames : assets[a].what = "never"

\* C25: loadImage resolves exactly once for each image: at most once ever,
\* once when settled, and the ok flag it wrote is never changed by a later
\* event; and assetsLoaded eventually becomes true whatever the images do.
C25_SettlesOnce ==
  /\ [](variant = "preload" =>
          \A a \in AssetNames :
            /\ assets[a].resolves <= 1
            /\ assets[a].settled <=> assets[a].resolves = 1)
  /\ [][ variant = "preload" =>
           \A a \in AssetNames : assets[a].settled => assets'[a].ok = assets[a].ok ]_vars
  /\ [](variant = "preload" => <>assetsLoaded)

\* an image that loaded only after its timeout had given it up
C25_LoadedTooLate ==
  /\ variant = "preload" /\ assetsLoaded
  /\ \E a \in AssetNames :
       /\ assets[a].dom = "complete" /\ ~assets[a].ok
       /\ assets[a].resolves = 1 /\ ~assets[a].timer

\* C26: in every frame of the preloading GameCanvas no image whose ok flag is
\* false is passed to drawImage.
C26_NoBrokenDraw ==
  [][ (variant = "preload" /\ last' = "draw") =>
        \A a \in AssetNames : ~assets[a].ok => a \notin drawn' ]_vars

\* a frame has drawn a loaded image and used the fallback for one that was
\* complete but had been given up
C26_FallbackUsed ==
  /\ variant = "preload" /\ last = "draw"
  /\ drawn # {}
  /\ \E a \in AssetNames : assets[a].dom = "complete" /\ ~assets[a].ok /\ a \notin drawn

\* C27: a key event that finds the player in the air never sets vy to the
\* jump power: in the lives-based variant it adds the air boost or the Down
\* impulse or nothing, in the basic variant it changes nothing, and grounded
\* stays false; a key event that changes a grounded player's vy is the jump
\* (vy = jumpPower, grounded cleared) or the Down impulse. In Game3D a frame
\* with Up held and the player grounded leaves it in the air. In the basic
\* variant and in Game3D vy changes in the air only by gravity (and the quick
\* drop) until the tick on which the player lands.
C27_JumpOnlyGrounded ==
  [][ /\ (variant \in {"lives", "basic"} /\ last' = "keydown" /\ ~player.grounded) =>
           /\ ~player'.grounded
           /\ IF variant = "basic" THEN player' = player
              ELSE player'.vy \in {player.vy, player.vy + AirBoost,
                                   player.vy + DownImpulse}
      /\ (variant \in {"lives", "basic"} /\ last' = "keydown" /\ player.grounded
            /\ player'.vy # player.vy) =>
           \/ player'.vy = JumpPower /\ ~player'.grounded
           \/ variant = "lives" /\ player'.vy = player.vy + DownImpulse
      /\ (variant = "3d" /\ last' = "frame" /\ ~rendered.gameOver /\ player.grounded
            /\ "ArrowUp" \in pressed) => ~player'.grounded
      /\ (variant = "3d" /\ last' = "frame" /\ ~player.grounded) =>
           \/ player'.grounded /\ player'.y = StartY
           \/ player'.vy \in {player.vy, player.vy + Gravity3D,
                               player.vy + Gravity3D + (Gravity3D * 4) \div 10}
      /\ (variant = "basic" /\ last' = "frame" /\ ~player.grounded) =>
           \/ player'.grounded /\ player'.y + PlayerSize = GroundLine
           \/ player'.vy = player.vy + Gravity2D ]_vars

\* Game3D: Up is still held on the second frame of a jump and the player
\* keeps falling back
C27_HeldInAir ==
  /\ variant = "3d" /\ last = "frame" /\ ~gameOver
  /\ ~player.grounded /\ "ArrowUp" \in pressed
  /\ player.vy <= JumpVelocity + 2 * Gravity3D

\* C28: in the lives-based variant a key event that comes 120 ms or less
\* after the last Down impulse applies no Down impulse, and every Down impulse
\* that is applied restarts the 120 ms.
C28_DownRateLimited ==
  [][ (variant = "lives" /\ last' = "keydown") =>
        /\ downRecent =>
             player'.vy \in {player.vy, player.vy + AirBoost, JumpPower}
        /\ player'.vy = player.vy + DownImpulse => downRecent' ]_vars

\* a second Down impulse has been applied, more than 120 ms after the first
C28_SecondImpulse ==
  /\ variant = "lives" /\ last = "keydown" /\ downRecent
  /\ player.vy = 2 * DownImpulse

ReferenceX(x, step, keys, wind, lo, hi) ==
  LET right == IF "ArrowRight" \in keys THEN 1 ELSE 0
      left == IF "ArrowLeft" \in keys THEN 1 ELSE 0
      x1 == x + step * (right - left) + wind
  IN  IF x1 < lo THEN lo ELSE IF x1 > hi THEN hi ELSE x1

\* C30: the horizontal step of one Playing tick, before any hazard pushback,
\* is clamp(x + speed * (right held - left held) + windForce, minX, maxX), in
\* the lives-based variant and in Game3D.
C30_HorizontalReference ==
  [][ /\ (variant = "lives" /\ TickStep) =>
           MoveLives(player, pressed, windForce').x
             = ReferenceX(player.x, PlayerSpeed, pressed, windForce',
                          MinX2D, MaxX2D)
      /\ (variant = "3d" /\ TickStep /\ ~gameOver) =>
           Move3D(player, pressed, windForce').x
             = ReferenceX(player.x, MoveSpeed, pressed, windForce',
                          MinX3D, MaxX3D) ]_vars

\* C31: in the lives-based variant the player is never above the ceiling line,
\* and a tick whose gravity step would carry the player above it leaves the
\* player on the line with a vy that is not negative before the storm pushback.
C31_CeilingClamp ==
  /\ [](variant = "lives" => player.y >= CeilingY)
  /\ [][ (variant = "lives" /\ TickStep
            /\ player.y + player.vy + Gravity2D < CeilingY) =>
          /\ player'.y = CeilingY
          /\ player'.vy + PushBack * obs'.hits >= 0 ]_vars

\* a tick has stopped the rising player at the ceiling
C31_AtCeiling ==
  /\ variant = "lives" /\ last = "frame"
  /\ player.y = CeilingY /\ player.vy = 0 /\ ~player.grounded

\* C32: after every tick of a 2D game component no star, storm or cloud is
\* wholly past the left edge (x + r >= 0, x + 40 >= 0, x + w >= 0), and after
\* every applied Game3D tick no star or storm is past z = 3.
C32_Recycled ==
  [][ ((variant = "lives" \/ variant = "basic" \/ variant = "3d") /\ TickStep) =>
        IF variant = "3d"
          THEN /\ \A i \in 1..Len(stars') : stars'[i].z <= PassZ
               /\ \A i \in 1..Len(storms') : storms'[i].z <= PassZ
          ELSE /\ \A i \in 1..Len(stars') : stars'[i].x + StarR >= 0
               /\ \A i \in 1..Len(storms') : storms'[i].x + StormHalfW >= 0
               /\ \A i \in 1..Len(clouds') : clouds'[i].x + clouds'[i].w >= 0 ]_vars

\* a tick has put the first cloud back to the right of the canvas while the
\* second one, exactly at the edge, stays
C32_CloudBack ==
  /\ variant = "lives" /\ last = "frame" /\ frames = 2
  /\ clouds[1].x > W
  /\ clouds[2].x + clouds[2].w = 0
  /\ stars[1].x > W - 2 * stars[1].speed
  /\ Len(storms) >= 1 /\ storms[1].x > W - 2 * storms[1].speed

\* C33: on every applied Game3D tick every star and every storm that is not
\* respawned moves along z by the same amount, the forward speed of the
\* render the frame runs in, and that amount is at most the base speed plus
\* the capped bonus.
C33_SharedForward ==
  [][ (variant = "3d" /\ last' = "frame") =>
        LET fwd == Forward(rendered.speed, rendered.level)
        IN  /\ \A i \in 1..Len(stars) :
                 stars[i].z + fwd <= PassZ => stars'[i].z = stars[i].z + fwd
            /\ \A i \in 1..Len(storms) :
                 storms[i].z + fwd <= PassZ => storms'[i].z = storms[i].z + fwd
            /\ fwd <= BaseForwardSpeed + 500 ]_vars

\* C34: in Game3D a star scores at most once per pass.  On every applied
\* frame an inactive star that does not pass z = 3 stays inactive, and score
\* and the App's score rise by exactly the number of stars the frame turned
\* inactive; a star turns active again only on a frame that carries it past
\* z = 3 or on restart.
C34_ScoresOncePerPass ==
  [][ variant = "3d" =>
        LET fwd == Forward(rendered.speed, rendered.level)
            passes(i) == stars[i].z + fwd > PassZ
            taken == {i \in 1..Len(stars) :
                        stars[i].active /\ ~passes(i) /\ ~stars'[i].active}
        IN  /\ last' = "frame" =>
                 /\ \A i \in 1..Len(stars) :
                      (~stars[i].active /\ ~passes(i)) => ~stars'[i].active
                 /\ score' = score + Cardinality(taken)
                 /\ appScore' = appScore + Cardinality(taken)
            /\ \A i \in 1..Len(stars) :
                 (~stars[i].active /\ stars'[i].active) =>
                    \/ RestartStep
                    \/ last' = "frame" /\ passes(i) ]_vars

\* a collected star still overlaps the player on a later frame, which scored
\* nothing
C34_StillOverlapping ==
  /\ variant = "3d" /\ last = "frame" /\ frames >= 2
  /\ obs.stars = 0 /\ score >= 1 /\ ~gameOver
  /\ \E i \in 1..Len(stars) : ~stars[i].active /\ StarHits3D(player, stars[i])

\* C35: in every state of the three game components a grounded player is
\* exactly at the rest position: y + size = 280 in 2D, y = startY in Game3D.
C35_GroundedAtRest ==
  (variant = "lives" \/ variant = "basic" \/ variant = "3d") =>
    (player.grounded =>
       IF variant = "3d" THEN player.y = StartY
                         ELSE player.y + PlayerSize = GroundLine)

\* a Down impulse has reached the grounded player of the lives-based variant:
\* vy is 3.2 and the player is still grounded at rest
C35_PressedDownOnGround ==
  /\ variant = "lives" /\ last = "keydown"
  /\ player.grounded /\ player.vy = DownImpulse
  /\ player.y + PlayerSize = GroundLine

\* C36: in every state of the lives-based variant lives is in 0..3 and
\* gameOver holds exactly when lives = 0; no step takes more than one life,
\* however many storms overlap the player in the tick.
C36_LivesInRange ==
  /\ [](variant = "lives" => (lives \in 0..InitialLives /\ (gameOver <=> lives = 0)))
  /\ [][ variant = "lives" => lives' >= lives - 1 ]_vars

\* a tick on which two storms overlapped the player has taken one life
C36_TwoStormsOneLife ==
  /\ variant = "lives" /\ last = "frame" /\ frames = 1
  /\ obs.hits = 2 /\ lives = InitialLives - 1

\* C37: the level-up threshold is a function of level: nextLevelAt = 5 * level
\* in the lives-based variant, target = 8 + 6 * (level - 1) and
\* speed = base + 0.02 * (level - 1) in Game3D; and while Playing, once the
\* re-renders have settled, the collected count is strictly below the
\* threshold.
C37_ThresholdOfLevel ==
  /\ variant = "lives" =>
       /\ nextLevelAt = LevelStep2D * level
       /\ (~gameOver /\ ~dirty) => starsCollected < nextLevelAt
  /\ variant = "3d" =>
       /\ target = FirstTarget + TargetStep * (level - 1)
       /\ speed = BaseForwardSpeed + SpeedStep * (level - 1)
       /\ (~gameOver /\ ~dirty) => score < target

\* five stars collected in one tick have raised the level, and the re-renders
\* have settled at level 2 with the count below the new threshold
C37_SettledAtLevelTwo ==
  /\ variant = "lives" /\ ~dirty /\ ~gameOver /\ mounted
  /\ level = 2 /\ starsCollected = FirstLevelAt /\ nextLevelAt = 2 * LevelStep2D

\* C38: in the 2D components at most one timeout of each kind (wind, flash,
\* invulnerability) is pending at any time; while the component is mounted a
\* nonzero wind force has its timeout pending; a gust leaves exactly one wind
\* timeout pending, its own, and the callback of the wind timeout sets the
\* force to 0.
C38_OneTimeoutPerKind ==
  /\ []((variant = "lives" \/ variant = "basic") =>
          /\ timers.wind <= 1 /\ timers.flash <= 1 /\ timers.cooldown <= 1
          /\ (mounted /\ windForce # 0) => (windTimeout /\ timers.wind = 1))
  /\ [][ (variant = "lives" \/ variant = "basic") =>
          /\ (TickStep /\ obs'.gust) => (windTimeout' /\ timers'.wind = 1)
          /\ last' = "windExpire" => (windForce' = 0 /\ timers'.wind = 0) ]_vars

\* a gust has started while the timeout of an earlier gust was pending: the
\* force is the new one and one wind timeout is pending
C38_GustOverGust ==
  /\ variant = "lives" /\ last = "frame" /\ frames = 1 /\ events = 1
  /\ obs.gust /\ pressed = {"ArrowRight"}
  /\ windForce # 0 /\ windForce # GustForce(1, 1)
  /\ timers.wind = 1

\* the number of onScore(1) calls of the step taken
ScoreCalls ==
  IF variant = "shell" THEN (IF last' = "onScore" THEN 1 ELSE 0)
  ELSE IF variant = "preload"
    THEN (IF last' = "draw" THEN Cardinality(Passed(drift)) ELSE 0)
  ELSE IF TickStep THEN obs'.stars ELSE 0

\* C39: App's score is never reset: every step changes it by exactly the
\* number of onScore(1) calls made in the step, so a restart, a step taken
\* while the game is over and a 2D/3D mode toggle leave it unchanged; counted
\* from the mount of App it is the number of calls made.
C39_HostScoreKept ==
  /\ [][ /\ appScore' = appScore + ScoreCalls
         /\ (RestartStep \/ last' = "toggleMode") => appScore' = appScore ]_vars
  /\ [](variant = "shell" => appScore = events)

\* the mode was switched to 3D after the game had scored: the score stays
C39_ToggledAfterScore ==
  /\ variant = "shell" /\ last = "toggleMode" /\ mode3D /\ appScore = 1

\* a restart has set the game's score to 0 while App's score keeps the stars of
\* the session before
C39_RestartKeepsHostScore ==
  /\ variant = "lives" /\ last = "restart" /\ score = 0 /\ appScore >= 1

\* C40: in the lives-based variant at most one animation-frame callback is
\* pending at any time, exactly one while the component is mounted; every
\* re-run of the main loop effect leaves exactly one pending.
C40_OneFramePending ==
  /\ [](variant = "lives" => (raf <= 1 /\ (mounted => raf = 1)))
  /\ [][ (variant = "lives" /\ last' = "commit") => raf' = 1 ]_vars

\* the loop effect has run again after a frame that changed the score, and one
\* frame is pending
C40_LoopRestarted ==
  /\ variant = "lives" /\ last = "commit" /\ frames >= 1 /\ score >= 1
  /\ mounted /\ raf = 1

====
